---------------------------- MODULE Spec2Model ----------------------------
(***************************************************************************)
(* Encrypted-bid settlement protocol of the Shadow auction client:         *)
(* proof verification, result parsing, bid/reserve encryption and the      *)
(* settlement flow of the web client, modelled from the TypeScript source. *)
(***************************************************************************)
EXTENDS Integers, Sequences, FiniteSets, TLC

(***************************************************************************)
(* Byte strings are sequences over 0..255.  Slice is Buffer/Uint8Array     *)
(* .slice(from, to): 0-based, end exclusive, clamped to the length.        *)
(***************************************************************************)
Min(a, b) == IF a <= b THEN a ELSE b

Fill(n, b) == [i \in 1..n |-> b]

Ramp(n, b) == [i \in 1..n |-> (b + i) % 256]

Slice(s, from, to) == SubSeq(s, from + 1, Min(to, Len(s)))

SliceFrom(s, from) == SubSeq(s, from + 1, Len(s))

SetByte(s, i, b) == [s EXCEPT ![i] = b]

\* Buffer.from('...') of an ASCII literal: one byte per character.
TagVerification ==
    <<97,114,99,105,117,109,95,109,112,99,95,118,101,114,105,102,105,99,97,116,105,111,110>>

TagIntegrity ==
    <<115,104,97,100,111,119,95,109,112,99,95,99,111,109,112,117,116,97,116,105,111,110,95,
      105,110,116,101,103,114,105,116,121>>

(***************************************************************************)
(* Hex strings are sequences of character codes: 0..15 a hex digit,        *)
(* any larger code another character.  Buffer.from(s, 'hex') decodes whole pairs  *)
(* up to the first pair holding a non-hex character; toString('hex')       *)
(* writes two digits per byte.                                             *)
(***************************************************************************)
IsHexDigit(c) == c \in 0..15

HexDecode(s) ==
    LET bad == {i \in 1..Len(s) : ~IsHexDigit(s[i])}
        firstBad == IF bad = {} THEN Len(s) + 1
                    ELSE CHOOSE i \in bad : \A j \in bad : i <= j
        n == (firstBad - 1) \div 2
    IN [k \in 1..n |-> s[2 * k - 1] * 16 + s[2 * k]]

HexEncode(b) ==
    [i \in 1..(2 * Len(b)) |->
        IF i % 2 = 1 THEN b[(i + 1) \div 2] \div 16 ELSE b[i \div 2] % 16]

(***************************************************************************)
(* Stand-ins for the library primitives the code calls.  Digest32 plays    *)
(* SHA-256: a deterministic 32-byte digest of the whole input (every byte  *)
(* and the length enter it).  ed25519Verify plays @noble/ed25519 verify    *)
(* as an ideal deterministic scheme whose signature is the 32 bytes the    *)
(* proof layout reserves for it.                                           *)
(***************************************************************************)
RECURSIVE PowMod(_, _)
PowMod(b, e) ==
    IF e = 0 THEN 1
    ELSE LET half == PowMod(b, e \div 2)
             sq == (half * half) % 46337
         IN IF e % 2 = 0 THEN sq ELSE (sq * b) % 46337

\* sum of (s[i] + 1) * 257^(hi - i) over lo..hi, modulo 46337
RECURSIVE Absorb(_, _, _)
Absorb(s, lo, hi) ==
    IF lo > hi THEN 0
    ELSE IF lo = hi THEN (s[lo] + 1) % 46337
    ELSE LET mid == (lo + hi) \div 2
         IN (Absorb(s, lo, mid) * PowMod(257, hi - mid) + Absorb(s, mid + 1, hi)) % 46337

Digest32(seed, s) ==
    LET h == ((seed + Len(s)) * PowMod(257, Len(s)) + Absorb(s, 1, Len(s))) % 46337
    IN [j \in 1..32 |->
          IF j = 1 THEN h % 256
          ELSE IF j = 2 THEN h \div 256
          ELSE ((h \div 256) + (h % 256) * j + j) % 256]

sha256(input) == Digest32(1, input)

ed25519Sign(verificationKey, message) == Digest32(2, verificationKey \o message)

\* "valid" | "invalid" | "throw" (a key of the wrong length is rejected by
\* the library with an exception)
ed25519Verify(signature, message, verificationKey) ==
    IF Len(verificationKey) # 32 THEN "throw"
    ELSE IF signature = ed25519Sign(verificationKey, message) THEN "valid"
    ELSE "invalid"

(***************************************************************************)
(* Proof Verifier (arciumMPC.ts).  Each operator returns what the function *)
(* returns together with the number of signature and hash computations it  *)
(* ran, so that "rejected before any cryptographic check" can be stated.   *)
(***************************************************************************)
ProofMinLen == 64

ComputationIdLen == 32

IntegrityProofLen == 96

generateComputationHash(computationId, mxePublicKey) ==
    sha256(TagIntegrity \o computationId \o mxePublicKey)

verifyArciumProof(signature, verificationKey, auxiliaryData, computationId, mxePublicKey) ==
    LET verificationMessage ==
            TagVerification \o computationId \o verificationKey \o mxePublicKey
        isValidSig == ed25519Verify(signature, verificationMessage, verificationKey)
    IN isValidSig = "valid"

\* the integrity check with the comparison left out
validateComputationIntegrity_NoCompare(computationId, proof, mxePublicKey) ==
    Len(HexDecode(proof)) >= IntegrityProofLen

validateComputationIntegrity(computationId, proof, mxePublicKey) ==
    LET computationIdBytes == HexDecode(computationId)
        expectedHash == generateComputationHash(computationIdBytes, mxePublicKey)
        proofBytes == HexDecode(proof)
    IN IF Len(proofBytes) < IntegrityProofLen THEN FALSE
       ELSE Slice(proofBytes, 64, 96) = expectedHash

\* the verifier reduced to its length checks
verifyComputationProof_LengthOnly(proof, computationId, mxePublicKey) ==
    [result |-> Len(HexDecode(proof)) >= ProofMinLen
                /\ Len(HexDecode(computationId)) = ComputationIdLen,
     sigChecks |-> 0, hashChecks |-> 0]

\* the verifier without the check of the id's length
verifyComputationProof_NoIdCheck(proof, computationId, mxePublicKey) ==
    LET proofBytes == HexDecode(proof)
        computationIdBytes == HexDecode(computationId)
    IN IF Len(proofBytes) < ProofMinLen
         THEN [result |-> FALSE, sigChecks |-> 0, hashChecks |-> 0]
       ELSE IF ~verifyArciumProof(Slice(proofBytes, 0, 32), Slice(proofBytes, 32, 64),
                                  SliceFrom(proofBytes, 64), computationIdBytes, mxePublicKey)
         THEN [result |-> FALSE, sigChecks |-> 1, hashChecks |-> 0]
       ELSE [result |-> validateComputationIntegrity(computationId, proof, mxePublicKey),
             sigChecks |-> 1, hashChecks |-> 1]

verifyComputationProof(proof, computationId, mxePublicKey) ==
    LET proofBytes == HexDecode(proof)
        computationIdBytes == HexDecode(computationId)
        signature == Slice(proofBytes, 0, 32)
        verificationKey == Slice(proofBytes, 32, 64)
        auxiliaryData == SliceFrom(proofBytes, 64)
    IN IF Len(proofBytes) < ProofMinLen
         THEN [result |-> FALSE, sigChecks |-> 0, hashChecks |-> 0]
       ELSE IF Len(computationIdBytes) # ComputationIdLen
         THEN [result |-> FALSE, sigChecks |-> 0, hashChecks |-> 0]
       ELSE IF ~verifyArciumProof(signature, verificationKey, auxiliaryData,
                                  computationIdBytes, mxePublicKey)
         THEN [result |-> FALSE, sigChecks |-> 1, hashChecks |-> 0]
       ELSE [result |-> validateComputationIntegrity(computationId, proof, mxePublicKey),
             sigChecks |-> 1, hashChecks |-> 1]

(***************************************************************************)
(* Result Parser (arciumMPC.ts).  A log line is a record: prefix is the    *)
(* literal text the line starts with, rest the characters after it (ASCII  *)
(* codes), json the document after an MPC_RESULT: marker.                  *)
(***************************************************************************)
NoJson ==
    [wellFormed |-> FALSE, winner |-> <<>>, winningAmount |-> 0, rankings |-> <<>>,
     proof |-> <<>>, computationId |-> <<>>]

\* which of the searched substrings a line prefix contains
Contained(prefix) ==
    CASE prefix = "Program log: MPC computation queued"
            -> {"Program log: MPC computation queued"}
      [] prefix = "Program log: Event MpcComputationQueued" -> {"MpcComputationQueued"}
      [] prefix = "Program data: " -> {"Program data:"}
      [] prefix = "Program return: " -> {"Program return:"}
      [] prefix = "Program log: MPC_RESULT:" -> {"MPC_RESULT:"}
      [] OTHER -> {}

\* log.includes(pattern)
Includes(line, pattern) == pattern \in Contained(line.prefix)

\* logs.find(pred): the first of the indices of the lines satisfying pred, 0 when none
FindFirst(hits) ==
    IF hits = {} THEN 0 ELSE CHOOSE i \in hits : \A j \in hits : i <= j

\* log.match(/Program return: [^\\s]+ (.+)/): the class [^\\s] excludes the
\* backslash (92) and the letter s (115), and nothing else.  The first group
\* starts after the last blank (32) of the longest run of allowed characters.
MatchProgramReturn(line) ==
    IF line.prefix # "Program return: " THEN [matched |-> FALSE, group |-> <<>>]
    ELSE LET t == line.rest
             stop == {i \in 1..Len(t) : t[i] \in {92, 115}}
             run == IF stop = {} THEN Len(t)
                    ELSE (CHOOSE i \in stop : \A j \in stop : i <= j) - 1
             blanks == {k \in 2..run : t[k] = 32 /\ k < Len(t)}
         IN IF blanks = {} THEN [matched |-> FALSE, group |-> <<>>]
            ELSE [matched |-> TRUE,
                  group |-> SubSeq(t, (CHOOSE k \in blanks : \A j \in blanks : j <= k) + 1,
                                   Len(t))]

\* the base64 alphabet: value of a character, character of a value
SextetOf(c) ==
    IF c \in 65..90 THEN c - 65
    ELSE IF c \in 97..122 THEN c - 71
    ELSE IF c \in 48..57 THEN c + 4
    ELSE IF c = 43 THEN 62
    ELSE 63

CharOf(v) ==
    IF v < 26 THEN v + 65
    ELSE IF v < 52 THEN v + 71
    ELSE IF v < 62 THEN v - 4
    ELSE IF v = 62 THEN 43
    ELSE 47

\* Buffer.from(text, 'base64'): every 4 characters give 3 bytes
Base64Decode(text) ==
    LET n == (Len(text) * 6) \div 8
    IN [k \in 1..n |->
          LET bit == 8 * (k - 1)
              i == bit \div 6 + 1
              off == bit % 6
              window == SextetOf(text[i]) * 64 + SextetOf(text[i + 1])
          IN (window \div (IF off = 0 THEN 16 ELSE IF off = 2 THEN 4 ELSE 1)) % 256]

\* what the ledger writes: the base64 text of a byte string (padding left out)
Base64Encode(bytes) ==
    LET n == (Len(bytes) * 8 + 5) \div 6
    IN [j \in 1..n |->
          LET bit == 6 * (j - 1)
              i == bit \div 8 + 1
              off == bit % 8
              hi == bytes[i]
              lo == IF i + 1 <= Len(bytes) THEN bytes[i + 1] ELSE 0
              window == hi * 256 + lo
          IN CharOf((window \div (IF off = 0 THEN 1024 ELSE IF off = 2 THEN 256
                                   ELSE IF off = 4 THEN 64 ELSE 16)) % 64)]

\* the base58 alphabet 123456789ABCDEFGHJKLMNPQRSTUVWXYZabcdefghijkmnopqrstuvwxyz:
\* character of a digit, digit of a character
Base58CharOf(d) ==
    IF d < 9 THEN 49 + d
    ELSE IF d < 17 THEN 65 + (d - 9)
    ELSE IF d < 22 THEN 74 + (d - 17)
    ELSE IF d < 33 THEN 80 + (d - 22)
    ELSE IF d < 44 THEN 97 + (d - 33)
    ELSE 109 + (d - 44)

Base58DigitOf(c) ==
    IF c \in 49..57 THEN c - 49
    ELSE IF c \in 65..72 THEN c - 65 + 9
    ELSE IF c \in 74..78 THEN c - 74 + 17
    ELSE IF c \in 80..90 THEN c - 80 + 22
    ELSE IF c \in 97..107 THEN c - 97 + 33
    ELSE c - 109 + 44

\* the leading zero bytes of a byte string (the leading copies of a character)
RECURSIVE LeadingCount(_, _)
LeadingCount(seq, x) ==
    IF seq = <<>> \/ Head(seq) # x THEN 0 ELSE 1 + LeadingCount(Tail(seq), x)

\* long division of a big-endian number by 58, from byte i on
RECURSIVE DivMod58(_, _, _, _)
DivMod58(bytes, i, rem, quotient) ==
    IF i > Len(bytes) THEN [quotient |-> quotient, rem |-> rem]
    ELSE LET cur == rem * 256 + bytes[i]
         IN DivMod58(bytes, i + 1, cur % 58, Append(quotient, cur \div 58))

RECURSIVE Base58Digits(_)
Base58Digits(bytes) ==
    IF \A i \in 1..Len(bytes) : bytes[i] = 0 THEN <<>>
    ELSE LET d == DivMod58(bytes, 1, 0, <<>>)
         IN Append(Base58Digits(d.quotient), Base58CharOf(d.rem))

\* new PublicKey(bytes).toBase58(): a '1' for every leading zero byte, then
\* the digits of the number in base 58
toBase58(bytes) ==
    LET zeros == LeadingCount(bytes, 0)
    IN Fill(zeros, 49) \o Base58Digits(SliceFrom(bytes, zeros))

\* big-endian number * 58 + carry, from byte i down
RECURSIVE MulAdd58(_, _, _)
MulAdd58(bytes, i, carry) ==
    IF i = 0 THEN (IF carry = 0 THEN bytes ELSE <<carry>> \o bytes)
    ELSE LET cur == bytes[i] * 58 + carry
         IN MulAdd58([bytes EXCEPT ![i] = cur % 256], i - 1, cur \div 256)

RECURSIVE Base58Number(_, _, _)
Base58Number(text, i, bytes) ==
    IF i > Len(text) THEN bytes
    ELSE LET next == MulAdd58(bytes, Len(bytes), Base58DigitOf(text[i]))
         IN IF Len(next) >= Len(bytes) THEN Base58Number(text, i + 1, next) ELSE next

\* new PublicKey(text).toBytes() for a base58 text: the address behind it
fromBase58(text) ==
    LET ones == LeadingCount(text, 49)
    IN Fill(ones, 0) \o Base58Number(text, ones + 1, <<>>)

\* resultBytes.readBigUInt64LE(offset)
ReadUInt64LE(b, offset) ==
    b[offset + 1] + 256 * (b[offset + 2] + 256 * (b[offset + 3] + 256 * (b[offset + 4]
      + 256 * (b[offset + 5] + 256 * (b[offset + 6] + 256 * (b[offset + 7]
      + 256 * b[offset + 8]))))))

ResultMinLen == 72

\* "no result" (null)
NullResult ==
    [found |-> FALSE, winner |-> <<>>, winningAmount |-> 0, rankings |-> <<>>,
     computationProof |-> <<>>, computationId |-> <<>>]

\* the layout read without the amount field: id at [32:64], proof from 64
parseArciumMpcResult_NoAmountField(resultBytes) ==
    IF Len(resultBytes) < 72 THEN [found |-> FALSE, winner |-> <<>>, winningAmount |-> 0,
                                   rankings |-> <<>>, computationProof |-> <<>>,
                                   computationId |-> <<>>]
    ELSE [found |-> TRUE,
          winner |-> toBase58(Slice(resultBytes, 0, 32)),
          winningAmount |-> 0,
          rankings |-> <<>>,
          computationProof |-> HexEncode(SliceFrom(resultBytes, 64)),
          computationId |-> HexEncode(Slice(resultBytes, 32, 64))]

\* winner is the base58 text of the 32-byte address; winningAmount
\* is kept in units of 1e-9, so that "/ 1e9" loses nothing.
parseArciumMpcResult(resultBytes) ==
    IF Len(resultBytes) < ResultMinLen THEN NullResult
    ELSE [found |-> TRUE,
          winner |-> toBase58(Slice(resultBytes, 0, 32)),
          winningAmount |-> ReadUInt64LE(resultBytes, 32),
          rankings |-> <<>>,
          computationProof |-> HexEncode(SliceFrom(resultBytes, 72)),
          computationId |-> HexEncode(Slice(resultBytes, 40, 72))]

IsQueuedMarker(log) ==
    Includes(log, "MpcComputationQueued") \/ Includes(log, "Program log: MPC computation queued")

IsProgramOutput(log) == Includes(log, "Program data:") \/ Includes(log, "Program return:")

IsResultEvent(log) == Includes(log, "MPC_RESULT:")

\* the fallback: the custom MPC_RESULT: event
parseCustomEvent(logs) ==
    LET e == FindFirst({i \in 1..Len(logs) : IsResultEvent(logs[i])})
    IN IF e = 0 THEN NullResult
       ELSE IF ~logs[e].json.wellFormed THEN NullResult
       ELSE [found |-> TRUE,
             winner |-> logs[e].json.winner,
             winningAmount |-> logs[e].json.winningAmount,
             rankings |-> logs[e].json.rankings,
             computationProof |-> logs[e].json.proof,
             computationId |-> logs[e].json.computationId]

parseComputationResult_NoMarkerTest(logs) ==
    LET r == FindFirst({i \in 1..Len(logs) : IsProgramOutput(logs[i])})
        base64Match == IF r = 0 THEN [matched |-> FALSE, group |-> <<>>]
                       ELSE MatchProgramReturn(logs[r])
    IN IF r # 0 /\ base64Match.matched
         THEN parseArciumMpcResult(Base64Decode(base64Match.group))
       ELSE parseCustomEvent(logs)

parseComputationResult(logs) ==
    LET q == FindFirst({i \in 1..Len(logs) : IsQueuedMarker(logs[i])})
        r == FindFirst({i \in 1..Len(logs) : IsProgramOutput(logs[i])})
        base64Match == IF r = 0 THEN [matched |-> FALSE, group |-> <<>>]
                       ELSE MatchProgramReturn(logs[r])
    IN IF q = 0 THEN NullResult
       ELSE IF r # 0 /\ base64Match.matched
         THEN parseArciumMpcResult(Base64Decode(base64Match.group))
       ELSE parseCustomEvent(logs)

(***************************************************************************)
(* Bid/Reserve Encryption (arciumMPC.ts, shadowProtocol.ts, encryption.ts).*)
(* A cluster key is [present, bytes]: an absent key is undefined.  The     *)
(* library calls are stand-ins: what x25519 does with a malformed or       *)
(* zero-filled peer key, and the shape of what RescueCipher.encrypt        *)
(* returns, are choices of the environment (env.strict, env.shape); the    *)
(* random draws are env.privateKey and env.nonce.  Amounts are counted in  *)
(* thousandths of a unit, so that amount * 1e9 is a whole number.          *)
(***************************************************************************)
AbsentKey == [present |-> FALSE, bytes |-> <<>>]

KeyOf(bytes) == [present |-> TRUE, bytes |-> bytes]

\* Math.floor(amount * 1e9), amount in thousandths
ToLamports(amountMilli) == amountMilli * 1000000

x25519_getPublicKey(privateKey) == Digest32(3, privateKey)

IsCurvePoint(key) == Len(key.bytes) = 32 /\ \E i \in 1..32 : key.bytes[i] # 0

\* reading an undefined key fails in any implementation; a key of the wrong
\* length or of low order is rejected only by a validating one
x25519_getSharedSecret(privateKey, key, strict) ==
    IF ~key.present THEN [threw |-> TRUE, secret |-> <<>>]
    ELSE IF strict /\ ~IsCurvePoint(key) THEN [threw |-> TRUE, secret |-> <<>>]
    ELSE [threw |-> FALSE, secret |-> Digest32(4, privateKey \o key.bytes)]

\* the order of the field the cipher computes in
FieldModulus == 2147483647

\* the key stream the cipher draws from secret and nonce
KeyStream(secret, nonce) ==
    LET d == Digest32(5, secret \o nonce) IN d[1] + 256 * d[2]

\* the stream cipher: plaintext plus key stream, as an element of the field
RescueElement(secret, plaintext, nonce) ==
    (plaintext + KeyStream(secret, nonce)) % FieldModulus

\* cipher.encrypt([plaintext], nonce): a list of elements [type, value];
\* an "array" element is the list of the value's 32 little-endian bytes
RescueCipher_encrypt(secret, plaintext, nonce, shape) ==
    IF shape = "empty" THEN <<>>
    ELSE <<[type |-> shape, value |-> RescueElement(secret, plaintext, nonce)]>>

\* the items of an "array" element
ItemsOf(element) ==
    [i \in 1..32 |->
        IF i = 1 THEN element.value % 256
        ELSE IF i = 2 THEN (element.value \div 256) % 256
        ELSE IF i = 3 THEN (element.value \div 65536) % 256
        ELSE IF i = 4 THEN element.value \div 16777216
        ELSE 0]

\* the number a list of bytes stands for, least significant first, as the
\* cipher reads a ciphertext: inRange for a number below 2^31
BigIntOfItems(items) ==
    IF \E i \in 1..Len(items) : items[i] # 0 /\ (i > 4 \/ (i = 4 /\ items[i] > 127))
      THEN [inRange |-> FALSE, value |-> 0]
    ELSE [inRange |-> TRUE,
          value |-> (IF Len(items) >= 1 THEN items[1] ELSE 0)
                    + (IF Len(items) >= 2 THEN 256 * items[2] ELSE 0)
                    + (IF Len(items) >= 3 THEN 65536 * items[3] ELSE 0)
                    + (IF Len(items) >= 4 THEN 16777216 * items[4] ELSE 0)]

\* cipher.decrypt(ciphertexts, nonce): each element less the key stream
RescueCipher_decrypt(secret, ciphertexts, nonce) ==
    [k \in 1..Len(ciphertexts) |->
        LET element == BigIntOfItems(ciphertexts[k])
        IN IF element.inRange
             THEN [inRange |-> TRUE,
                   value |-> (element.value - KeyStream(secret, nonce)) % FieldModulus]
           ELSE element]

\* n.toString(16) and n.toString(): digit characters, most significant first
RECURSIVE ToStringRadix(_, _)
ToStringRadix(n, radix) ==
    IF n < radix THEN <<n>> ELSE Append(ToStringRadix(n \div radix, radix), n % radix)

\* array.toString(): the items in decimal, joined by commas (a non-hex character)
RECURSIVE JoinDecimal(_, _)
JoinDecimal(items, i) ==
    IF i > Len(items) THEN <<>>
    ELSE (IF i = 1 THEN <<>> ELSE <<16>>) \o ToStringRadix(items[i], 10)
            \o JoinDecimal(items, i + 1)

\* hexString.padStart(64, '0')
PadStart64(text) ==
    IF Len(text) >= 64 THEN text ELSE Fill(64 - Len(text), 0) \o text

\* parseInt(two characters, 16) stored into a Uint8Array: NaN is stored as 0
ParseIntPair(c1, c2) ==
    IF ~IsHexDigit(c1) THEN 0
    ELSE IF ~IsHexDigit(c2) THEN c1
    ELSE c1 * 16 + c2

\* for (i < 32) out[i] = parseInt(paddedHex.substring(i * 2, i * 2 + 2), 16)
HexToBytes32(hexString) ==
    LET paddedHex == PadStart64(hexString)
    IN [i \in 1..32 |-> ParseIntPair(paddedHex[2 * i - 1], paddedHex[2 * i])]

Zero32 == Fill(32, 0)

Failed(fn, error) ==
    [fn |-> fn, ok |-> FALSE, error |-> error, ciphertext |-> <<>>, nonce |-> <<>>,
     publicKey |-> <<>>, sharedSecret |-> <<>>, bidder |-> ""]

Envelope(fn, ciphertext, nonce, publicKey, sharedSecret, bidder) ==
    [fn |-> fn, ok |-> TRUE, error |-> "", ciphertext |-> ciphertext, nonce |-> nonce,
     publicKey |-> publicKey, sharedSecret |-> sharedSecret, bidder |-> bidder]

\* arciumMPC.ts: bigint and number elements are printed in hex, anything else is '0'
CiphertextForMXE(ciphertext) ==
    IF Len(ciphertext) = 0 THEN Zero32
    ELSE IF ciphertext[1].type \in {"bigint", "number"}
      THEN HexToBytes32(ToStringRadix(ciphertext[1].value, 16))
    ELSE HexToBytes32(<<0>>)

encryptBidForMXE(bidAmount, bidder, mxeKey, env) ==
    LET publicKey == x25519_getPublicKey(env.privateKey)
        shared == x25519_getSharedSecret(env.privateKey, mxeKey, env.strict)
        ciphertext == RescueCipher_encrypt(shared.secret, ToLamports(bidAmount),
                                           env.nonce, env.shape)
    IN IF shared.threw THEN Failed("encryptBidForMXE", "x25519")
       ELSE Envelope("encryptBidForMXE", CiphertextForMXE(ciphertext), env.nonce,
                     publicKey, shared.secret, bidder)

encryptReservePriceForMXE(reservePrice, mxeKey, env) ==
    LET publicKey == x25519_getPublicKey(env.privateKey)
        shared == x25519_getSharedSecret(env.privateKey, mxeKey, env.strict)
        ciphertext == RescueCipher_encrypt(shared.secret, ToLamports(reservePrice),
                                           env.nonce, env.shape)
    IN IF shared.threw THEN Failed("encryptReservePriceForMXE", "x25519")
       ELSE Envelope("encryptReservePriceForMXE", CiphertextForMXE(ciphertext), env.nonce,
                     publicKey, <<>>, "")

\* shadowProtocol.ts encryptBidAmount: an element with a toString is printed with it
CiphertextOfBidAmount(encryptedResult) ==
    IF Len(encryptedResult) = 0 THEN Zero32
    ELSE LET resultValue == encryptedResult[1]
         IN IF resultValue.type \in {"bigint", "number"}
              THEN HexToBytes32(ToStringRadix(resultValue.value, 16))
            ELSE IF resultValue.type = "array"
              THEN HexToBytes32(JoinDecimal(ItemsOf(resultValue), 1))
            ELSE HexToBytes32(<<0>>)

encryptBidAmount(amount, mxePublicKey, env) ==
    IF mxePublicKey.present /\ Len(mxePublicKey.bytes) = 32
      THEN LET publicKey == x25519_getPublicKey(env.privateKey)
               shared == x25519_getSharedSecret(env.privateKey, mxePublicKey, env.strict)
               encryptedResult == RescueCipher_encrypt(shared.secret, ToLamports(amount),
                                                       env.nonce, env.shape)
           IN IF shared.threw
                THEN Failed("encryptBidAmount", "Bid encryption failed")
              ELSE Envelope("encryptBidAmount", CiphertextOfBidAmount(encryptedResult),
                            env.nonce, publicKey, <<>>, "")
    ELSE Failed("encryptBidAmount", "Valid MXE public key is required")

\* shadowProtocol.ts encryptReservePrice: the nonce returned is the number made
\* of the first 8 of the 16 nonce bytes; no public key is returned
encryptReservePrice(price, mxePublicKey, env) ==
    IF mxePublicKey.present /\ Len(mxePublicKey.bytes) = 32
      THEN LET shared == x25519_getSharedSecret(env.privateKey, mxePublicKey, env.strict)
               encryptedResult == RescueCipher_encrypt(shared.secret, ToLamports(price),
                                                       env.nonce, env.shape)
           IN IF shared.threw
                THEN Failed("encryptReservePrice", "Reserve price encryption failed")
              ELSE Envelope("encryptReservePrice", CiphertextForMXE(encryptedResult),
                            Slice(env.nonce, 0, 8), <<>>, <<>>, "")
    ELSE Failed("encryptReservePrice", "Valid MXE public key is required")

\* new EncryptionManager(address, connection, mxePublicKey): this.mxePublicKey
EncryptionManagerKey(mxePublicKey) ==
    IF mxePublicKey.present THEN mxePublicKey ELSE KeyOf(Zero32)

\* encryption.ts encryptValue: new Uint8Array(isArray(c) ? c : [c]); a bigint
\* in the list is a TypeError, a number is stored modulo 256, undefined as 0
encryptValue(value, mxePublicKey, managerKey, env) ==
    LET publicKey == x25519_getPublicKey(env.privateKey)
        publicKeyToUse == IF mxePublicKey.present THEN mxePublicKey ELSE managerKey
        shared == x25519_getSharedSecret(env.privateKey, publicKeyToUse, env.strict)
        ciphertext == RescueCipher_encrypt(shared.secret, value, env.nonce, env.shape)
    IN IF shared.threw THEN Failed("encryptValue", "x25519")
       ELSE IF Len(ciphertext) = 0
         THEN Envelope("encryptValue", <<0>>, env.nonce, publicKey, shared.secret, "")
       ELSE IF ciphertext[1].type = "bigint" THEN Failed("encryptValue", "TypeError")
       ELSE IF ciphertext[1].type = "array"
         THEN Envelope("encryptValue", ItemsOf(ciphertext[1]), env.nonce, publicKey,
                       shared.secret, "")
       ELSE IF ciphertext[1].type = "number"
         THEN Envelope("encryptValue", <<ciphertext[1].value % 256>>, env.nonce, publicKey,
                       shared.secret, "")
       ELSE Envelope("encryptValue", <<0>>, env.nonce, publicKey, shared.secret, "")

\* encryption.ts decryptData: Array.isArray(a Uint8Array) is false, so the
\* bytes are one ciphertext; Array.from(ct) hands the cipher a list of numbers
decryptData(encryptedData, nonce, sharedSecret) ==
    RescueCipher_decrypt(sharedSecret, <<encryptedData>>, nonce)

\* the plaintext list cipher.encrypt is called with: none when the call
\* ends before it, at the key guard or in the derivation of the secret
CipherCalledWith(fn, plaintext, key, env) ==
    IF fn \in {"encryptBidAmount", "encryptReservePrice"}
          /\ ~(key.present /\ Len(key.bytes) = 32) THEN <<>>
    ELSE IF x25519_getSharedSecret(env.privateKey, key, env.strict).threw THEN <<>>
    ELSE <<plaintext>>

(***************************************************************************)
(* Bid submission (transaction.ts submitBid, shadowProtocol.ts submitBid). *)
(* A bidder is named by the 32 bytes of their address, or by the base58   *)
(* text of it where the code sends toBase58().  A message that             *)
(* leaves the client is [kind, bidder, amountEncrypted, publicKey, nonce,  *)
(* lamports]; bidAmount notes the amount of the bid it belongs to and is   *)
(* not part of the message.                                                *)
(***************************************************************************)
\* new TextEncoder().encode(n.toString()): the ASCII codes of the decimal digits
TextEncodeDecimal(n) == [i \in 1..Len(ToStringRadix(n, 10)) |-> 48 + ToStringRadix(n, 10)[i]]

\* encryptedAmountBytes = new Uint8Array(32); encryptedAmountBytes.set(encoded.slice(0, 32))
SetInto32(encoded) ==
    LET head == Slice(encoded, 0, 32) IN head \o Fill(32 - Len(head), 0)

\* the bidData of submitBid: the amount field holds the decimal text of the
\* lamports, the public key is 32 zero bytes, the nonce is sent in hex
BidData(bidder, amount, nonce) ==
    [kind |-> "POST /api/bids", bidder |-> toBase58(bidder),
     amountEncrypted |-> SetInto32(TextEncodeDecimal(ToLamports(amount))),
     publicKey |-> Zero32, nonce |-> HexEncode(nonce), lamports |-> 0,
     bidAmount |-> amount]

\* SystemProgram.transfer({fromPubkey, toPubkey: escrowPDA, lamports})
EscrowTransfer(bidder, amount) ==
    [kind |-> "escrowTransfer", bidder |-> bidder, amountEncrypted |-> <<>>,
     publicKey |-> <<>>, nonce |-> <<>>, lamports |-> ToLamports(amount),
     bidAmount |-> amount]

\* program.methods.submitEncryptedBid(auctionId, encryptedAmount, publicKey, nonce, offset)
SubmitEncryptedBid(bidder, amount, envelope) ==
    [kind |-> "submitEncryptedBid", bidder |-> bidder,
     amountEncrypted |-> envelope.ciphertext, publicKey |-> envelope.publicKey,
     nonce |-> HexEncode(Slice(envelope.nonce, 0, 8)), lamports |-> 0,
     bidAmount |-> amount]

\* what the bids API keeps of a posted bid and returns for the auction
StoredBid(bidData) ==
    [bidder |-> bidData.bidder, amountEncrypted |-> bidData.amountEncrypted,
     encryptionPublicKey |-> bidData.publicKey, nonce |-> bidData.nonce]

(***************************************************************************)
(* Settlement (transaction.ts settleAuction, arciumMPC.ts).                *)
(***************************************************************************)
\* settleAuction: allBids.map(bid => ({bidder, encryptedAmount, nonce, publicKey}))
ToEncryptedBids(allBids) ==
    [k \in 1..Len(allBids) |->
        [bidder |-> allBids[k].bidder,
         encryptedAmount |-> allBids[k].amountEncrypted,
         nonce |-> Fill(16, 0),
         publicKey |-> Fill(32, 0)]]

\* auction.minimumBid ? parseFloat(auction.minimumBid) / 1e9 : 0.01, in thousandths
ReservePriceOf(auction) ==
    IF auction.minimumBid = 0 THEN 10 ELSE auction.minimumBid \div 1000000

\* initializeMXECluster: the key configured, else bytes 8..40 of the account data
initializeMXECluster(account, configuredKey) ==
    IF ~account.exists \/ ~account.executable THEN [threw |-> TRUE, publicKey |-> <<>>]
    ELSE IF configuredKey.present THEN [threw |-> FALSE, publicKey |-> configuredKey.bytes]
    ELSE [threw |-> FALSE, publicKey |-> Slice(account.data, 8, 40)]

\* createComputationInstruction: queueMpcComputation(id, bidsCount, bids, reserve, ...)
createComputationInstruction(auctionId, encryptedBids, encryptedReservePrice) ==
    [auctionId |-> auctionId,
     bidsCount |-> Len(encryptedBids),
     bids |-> [k \in 1..Len(encryptedBids) |->
                 [bidder |-> encryptedBids[k].bidder,
                  encryptedAmount |-> encryptedBids[k].encryptedAmount,
                  nonce |-> Slice(encryptedBids[k].nonce, 0, 16),
                  publicKey |-> encryptedBids[k].publicKey]],
     encryptedReservePrice |-> encryptedReservePrice]

\* pollComputationResult: the first parsed result, or the timeout
pollComputationResult(outcome) ==
    IF outcome.finalized /\ parseComputationResult(outcome.logs).found
      THEN [threw |-> FALSE, result |-> parseComputationResult(outcome.logs)]
    ELSE [threw |-> TRUE, result |-> NullResult]

ProofAccepted_Always(isValid) == TRUE

\* if (!isValid) throw new Error('MPC proof verification failed')
ProofAccepted(isValid) == isValid

\* a refund for every bid, the winner's included
NonWinningBids_All(allBids, winner) == 1..Len(allBids)

\* allBids.filter(bid => bid.bidder !== winner), as indices into allBids
NonWinningBids(allBids, winner) == {k \in 1..Len(allBids) : allBids[k].bidder # winner}

(***************************************************************************)
(* State.  vProof, vComputationId, vMxeKey, vReturn: one call of the       *)
(* verifier, its arguments and what it returned.  pLogs, pResult: one call *)
(* of the parser on a transaction's log messages.                          *)
(***************************************************************************)
VARIABLES vProof, vComputationId, vMxeKey, vReturn

VARIABLES pLogs, pResult

\* the inputs of an encryption call, the call once made (its outcome and
\* the plaintext list it gave the cipher), and what decryptData returned
\* for its ciphertext
VARIABLES eIn, eCall, eDecrypted

\* the bids kept by the bids API, the messages sent for bids, the calls made
VARIABLES bidStore, outbox, bCount

\* the status of the auction in the client's list, the loading flag, the
\* invocations of settleAuction, the computations submitted, and the
\* transfers, posts and notifications issued
VARIABLES cStatus, loading, inv, requests, effects

\* the bytes handed to one call of the binary result parser, and the call
VARIABLES dBytes, dResult

\* one run of pollComputationResult: the await it is at, its maxAttempts and
\* attempts, the transaction it polls, the status queries made and waits
\* served, the last status and logs it was given, and how it ended
VARIABLES pollPc, maxAttempts, attempts, pollTx, pollQueries, pollWaits, pollStatus, pollLogs, pollOut

\* one run of monitorComputationProgress: its locals and the await it is at
\* (mon), the wall clock in seconds (now), the transaction it watches
\* (monTx), and what the run has observed and reported so far (monHist)
VARIABLES mon, now, monTx, monHist

\* the draws made from the random generator, the encryption calls made, and
\* whether the runtime has window.crypto
VARIABLES drawn, calls, windowCrypto

\* one call of ShadowProtocolClient.waitForComputation: its arguments
\* (wArgs), the call and how it ended (wait), the state of the computation
\* on the ledger (computation), and the time in seconds (wNow)
VARIABLES wArgs, wait, computation, wNow

\* one call of getComputationStatus: what getSignatureStatus answers
\* (sAnswer), what getTransaction answers if asked (sFee), and the call
VARIABLES sAnswer, sFee, sCall

verifyVars == <<vProof, vComputationId, vMxeKey, vReturn>>

parseVars == <<pLogs, pResult>>

encryptVars == <<eIn, eCall, eDecrypted>>

bidVars == <<bidStore, outbox, bCount>>

settleVars == <<cStatus, loading, inv, requests, effects>>

decodeVars == <<dBytes, dResult>>

pollVars == <<pollPc, maxAttempts, attempts, pollTx, pollQueries, pollWaits, pollStatus, pollLogs, pollOut>>

monitorVars == <<mon, now, monTx, monHist>>

freshVars == <<drawn, calls, windowCrypto>>

waitVars == <<wArgs, wait, computation, wNow>>

statusVars == <<sAnswer, sFee, sCall>>

vars == <<verifyVars, parseVars, encryptVars, bidVars, settleVars, decodeVars, pollVars, monitorVars, freshVars, waitVars, statusVars>>

(***************************************************************************)
(* Inputs of the verifier: proofs built for every id and cluster key of    *)
(* the universe, then damaged in each region of the layout.                *)
(***************************************************************************)
AuxLen == 2

IdA == Ramp(32, 160)

IdBitFlipped == SetByte(IdA, 1, 160)

IdLastFlipped == SetByte(IdA, 32, (IdA[32] + 128) % 256)

IdShort == Ramp(31, 160)

IdLong == Ramp(33, 160)

IdBytesSet == {IdA, IdBitFlipped, IdLastFlipped, IdShort, IdLong}

KeyA == Ramp(32, 7)

KeyB == SetByte(KeyA, 17, 0)

ClusterKeys == {KeyA, KeyB}

VkA == Ramp(32, 90)

MakeProof(id, key, vk) ==
    ed25519Sign(vk, TagVerification \o id \o vk \o key)
        \o vk \o sha256(TagIntegrity \o id \o key)

FlipByte(s, i) == SetByte(s, i, (s[i] + 1) % 256)

ProofModes ==
    {"good", "aux", "badsig", "hashFirst", "hashLast", "badsigHashOk",
     "noHash", "partHash", "short", "empty"}

Damage(p, mode) ==
    CASE mode = "good" -> p
      [] mode = "aux" -> p \o Fill(AuxLen, 7)
      [] mode = "badsig" -> FlipByte(FlipByte(p, 5), 70)
      [] mode = "badsigHashOk" -> FlipByte(p, 32)
      [] mode = "hashFirst" -> FlipByte(p, 65)
      [] mode = "hashLast" -> FlipByte(p, 96)
      [] mode = "noHash" -> Slice(p, 0, 64)
      [] mode = "partHash" -> Slice(p, 0, 95)
      [] mode = "short" -> Slice(p, 0, 63)
      [] mode = "empty" -> <<>>

ProofStrings ==
    {HexEncode(Damage(MakeProof(id, key, VkA), mode)) :
        id \in IdBytesSet, key \in ClusterKeys, mode \in ProofModes}

\* the hex of every id, and one string that stops being hex half-way
IdStrings ==
    {HexEncode(id) : id \in IdBytesSet}
        \cup {[HexEncode(IdA) EXCEPT ![40] = 16]}

NotCalled == [called |-> FALSE, result |-> FALSE, sigChecks |-> 0, hashChecks |-> 0]

VerifyInit ==
    /\ vProof \in ProofStrings
    /\ vComputationId \in IdStrings
    /\ vMxeKey \in ClusterKeys
    /\ vReturn = NotCalled

\* const isValid = await verifyComputationProof(proof, computationId, mxeCluster)
VerifyCall ==
    /\ ~vReturn.called
    /\ vReturn' = [called |-> TRUE]
                   @@ verifyComputationProof(vProof, vComputationId, vMxeKey)
    /\ UNCHANGED <<vProof, vComputationId, vMxeKey>>

VerifyIdle ==
    /\ vProof = <<>>
    /\ vComputationId = <<>>
    /\ vMxeKey = <<>>
    /\ vReturn = NotCalled

(***************************************************************************)
(* Inputs of the parser: log lists of up to MaxLogLines different lines.   *)
(***************************************************************************)
MaxLogLines == 3

WinnerA == Fill(32, 1)

WinnerB == Fill(32, 2)

\* the little-endian 8 bytes of an amount below 2^24
UInt64LE(n) ==
    <<n % 256, (n \div 256) % 256, (n \div 65536) % 256, 0, 0, 0, 0, 0>>

BinaryPayload(winner, amount, id, proof) == winner \o UInt64LE(amount) \o id \o proof

PayloadA == BinaryPayload(WinnerA, 2500, IdA, MakeProof(IdA, KeyA, VkA))

Line(prefix, rest, json) == [prefix |-> prefix, rest |-> rest, json |-> json]

\* "Program return: <program id> <base64>"
ReturnLine(programId, payload) ==
    Line("Program return: ", programId \o <<32>> \o Base64Encode(payload), NoJson)

\* the first characters of the configured program id, DWrCjVyfhys..., and an id without s
ProgramIdWithS == <<68, 87, 114, 67, 106, 86, 121, 102, 104, 121, 115>>

ProgramIdPlain == <<68, 87, 114, 67, 106, 86, 121, 102, 104, 121>>

JsonB ==
    [wellFormed |-> TRUE, winner |-> toBase58(WinnerB), winningAmount |-> 1000, rankings |-> <<>>,
     proof |-> HexEncode(MakeProof(IdBitFlipped, KeyA, VkA)),
     computationId |-> HexEncode(IdBitFlipped)]

\* a JSON event with only winner and winningAmount: proof and computationId absent
JsonBare ==
    [wellFormed |-> TRUE, winner |-> toBase58(WinnerB), winningAmount |-> 1000, rankings |-> <<>>,
     proof |-> <<>>, computationId |-> <<>>]

LineSet ==
    { Line("Program log: MPC computation queued", <<>>, NoJson),
      Line("Program log: Event MpcComputationQueued", <<>>, NoJson),
      Line("Program log: Instruction: QueueMpcComputation", <<>>, NoJson),
      Line("Program data: ", Base64Encode(Fill(8, 9)), NoJson),
      ReturnLine(ProgramIdPlain, PayloadA),
      ReturnLine(ProgramIdWithS, PayloadA),
      ReturnLine(ProgramIdPlain, Slice(PayloadA, 0, 71)),
      Line("Program return: ", Base64Encode(PayloadA), NoJson),
      Line("Program log: MPC_RESULT:", <<>>, JsonB),
      Line("Program log: MPC_RESULT:", <<>>, NoJson),
      ReturnLine(ProgramIdPlain, Slice(PayloadA, 0, 80)),
      Line("Program log: MPC_RESULT:", <<>>, JsonBare) }

LogLists ==
    {l \in UNION {[1..n -> LineSet] : n \in 0..MaxLogLines} :
        \A i, j \in 1..Len(l) : i # j => l[i] # l[j]}

NotParsed == [called |-> FALSE, value |-> NullResult]

ParseInit ==
    /\ pLogs \in LogLists
    /\ pResult = NotParsed

ParseIdle ==
    /\ pLogs = <<>>
    /\ pResult = NotParsed

\* const result = parseComputationResult(transaction.meta.logMessages)
ParseCall ==
    /\ ~pResult.called
    /\ pResult' = [called |-> TRUE, value |-> parseComputationResult(pLogs)]
    /\ UNCHANGED pLogs

(***************************************************************************)
(* Encryption calls.  Each entry point is called with an amount, a cluster *)
(* key as the caller holds it, and the draws of the environment.           *)
(***************************************************************************)
AmountsMilli == {-1500, 1, 1500}

PrivA == Ramp(32, 33)

PrivB == Ramp(32, 101)

NonceA == Ramp(16, 200)

NonceB == Ramp(16, 64)

CipherShapes == {"bigint", "number", "array", "null", "empty"}

EncryptEnvs ==
    [privateKey : {PrivA, PrivB}, nonce : {NonceA, NonceB},
     strict : BOOLEAN, shape : CipherShapes]

CallerKeys == {AbsentKey, KeyOf(Slice(KeyA, 0, 31)), KeyOf(Zero32), KeyOf(KeyA)}

ManagerKeys == {AbsentKey, KeyOf(KeyA)}

EncryptInputs ==
    [amount : AmountsMilli, key : CallerKeys, managerGiven : ManagerKeys, env : EncryptEnvs]

NoEncryptInput ==
    [amount |-> 0, key |-> AbsentKey, managerGiven |-> AbsentKey,
     env |-> [privateKey |-> <<>>, nonce |-> <<>>, strict |-> FALSE, shape |-> "empty"]]

NoEncryptCall == [called |-> FALSE, out |-> Failed("", ""), cipherIn |-> <<>>]

NotDecrypted == [called |-> FALSE, plaintexts |-> <<>>]

EncryptInit ==
    /\ eIn \in EncryptInputs
    /\ eCall = NoEncryptCall
    /\ eDecrypted = NotDecrypted

EncryptIdle ==
    /\ eIn = NoEncryptInput
    /\ eCall = NoEncryptCall
    /\ eDecrypted = NotDecrypted

EncryptBidForMXECall ==
    /\ ~eCall.called
    /\ eCall' = [called |-> TRUE,
                 out |-> encryptBidForMXE(eIn.amount, "bidder1", eIn.key, eIn.env),
                 cipherIn |-> CipherCalledWith("encryptBidForMXE", ToLamports(eIn.amount),
                                               eIn.key, eIn.env)]
    /\ UNCHANGED <<eIn, eDecrypted, verifyVars, parseVars, bidVars, settleVars, decodeVars, pollVars, monitorVars, freshVars, waitVars, statusVars>>

EncryptReservePriceForMXECall ==
    /\ ~eCall.called
    /\ eCall' = [called |-> TRUE,
                 out |-> encryptReservePriceForMXE(eIn.amount, eIn.key, eIn.env),
                 cipherIn |-> CipherCalledWith("encryptReservePriceForMXE",
                                               ToLamports(eIn.amount), eIn.key, eIn.env)]
    /\ UNCHANGED <<eIn, eDecrypted, verifyVars, parseVars, bidVars, settleVars, decodeVars, pollVars, monitorVars, freshVars, waitVars, statusVars>>

EncryptBidAmountCall ==
    /\ ~eCall.called
    /\ eCall' = [called |-> TRUE, out |-> encryptBidAmount(eIn.amount, eIn.key, eIn.env),
                 cipherIn |-> CipherCalledWith("encryptBidAmount", ToLamports(eIn.amount),
                                               eIn.key, eIn.env)]
    /\ UNCHANGED <<eIn, eDecrypted, verifyVars, parseVars, bidVars, settleVars, decodeVars, pollVars, monitorVars, freshVars, waitVars, statusVars>>

EncryptReservePriceCall ==
    /\ ~eCall.called
    /\ eCall' = [called |-> TRUE, out |-> encryptReservePrice(eIn.amount, eIn.key, eIn.env),
                 cipherIn |-> CipherCalledWith("encryptReservePrice", ToLamports(eIn.amount),
                                               eIn.key, eIn.env)]
    /\ UNCHANGED <<eIn, eDecrypted, verifyVars, parseVars, bidVars, settleVars, decodeVars, pollVars, monitorVars, freshVars, waitVars, statusVars>>

\* new EncryptionManager(address, connection, key).encryptValue(value, key)
EncryptValueCall ==
    /\ ~eCall.called
    /\ eCall' = [called |-> TRUE,
                 out |-> encryptValue(ToLamports(eIn.amount), eIn.key,
                                      EncryptionManagerKey(eIn.managerGiven), eIn.env),
                 cipherIn |-> CipherCalledWith("encryptValue", ToLamports(eIn.amount),
                                  IF eIn.key.present THEN eIn.key
                                  ELSE EncryptionManagerKey(eIn.managerGiven), eIn.env)]
    /\ UNCHANGED <<eIn, eDecrypted, verifyVars, parseVars, bidVars, settleVars, decodeVars, pollVars, monitorVars, freshVars, waitVars, statusVars>>

\* the secret derived in the call, which the caller of decryptData holds
SecretOfCall ==
    x25519_getSharedSecret(eIn.env.privateKey,
        IF eCall.out.fn = "encryptValue" /\ ~eIn.key.present
          THEN EncryptionManagerKey(eIn.managerGiven) ELSE eIn.key,
        eIn.env.strict).secret

\* decryptData(ciphertext of the envelope, the nonce of the call, its secret)
DecryptDataCall ==
    /\ eCall.called
    /\ eCall.out.ok
    /\ ~eDecrypted.called
    /\ eDecrypted' = [called |-> TRUE,
                      plaintexts |-> decryptData(eCall.out.ciphertext, eIn.env.nonce,
                                                 SecretOfCall)]
    /\ UNCHANGED <<eIn, eCall, verifyVars, parseVars, bidVars, settleVars, decodeVars, pollVars, monitorVars, freshVars, waitVars, statusVars>>

(***************************************************************************)
(* Bid submission calls.                                                   *)
(***************************************************************************)
MaxBids == 2

BalancesMilli == {1000, 5000}

BidAmountsMilli == {1500, 2000}

Bidders == {WinnerA, WinnerB}

BidEnvs ==
    [privateKey : {PrivA, PrivB}, nonce : {NonceA, NonceB},
     strict : BOOLEAN, shape : {"bigint", "array", "empty"}]

BidInit ==
    /\ bidStore = <<>>
    /\ outbox = {}
    /\ bCount = 0

BidIdle ==
    /\ bidStore = <<>>
    /\ outbox = {}
    /\ bCount = 0

\* transaction.ts submitBid: wallet guard, balance check, transfer to the
\* escrow, then the POST of the bid; a failed transfer or POST ends the call
SubmitBid ==
    \E connected \in BOOLEAN, bidder \in Bidders, amount \in BidAmountsMilli,
       balance \in BalancesMilli, nonce \in {NonceA, NonceB},
       transferOk \in BOOLEAN, responseOk \in BOOLEAN :
        /\ bCount < MaxBids
        /\ bCount' = bCount + 1
        /\ IF ~connected \/ balance < amount
             THEN UNCHANGED <<bidStore, outbox>>
           ELSE IF ~transferOk
             THEN UNCHANGED <<bidStore, outbox>>
           ELSE /\ outbox' = outbox \cup {EscrowTransfer(bidder, amount),
                                          BidData(bidder, amount, nonce)}
                /\ bidStore' = IF responseOk
                                 THEN Append(bidStore, StoredBid(BidData(bidder, amount, nonce)))
                               ELSE bidStore
        /\ UNCHANGED <<verifyVars, parseVars, encryptVars, settleVars, decodeVars, pollVars, monitorVars, freshVars, waitVars, statusVars>>

\* shadowProtocol.ts ShadowProtocol.submitBid: encryptBidAmount with the key
\* the object holds, then the submitEncryptedBid instruction
ProtocolSubmitBid ==
    \E bidder \in Bidders, amount \in BidAmountsMilli,
       mxePublicKey \in {AbsentKey, KeyOf(KeyA)}, env \in BidEnvs :
        LET envelope == encryptBidAmount(amount, mxePublicKey, env)
        IN /\ bCount < MaxBids
           /\ bCount' = bCount + 1
           /\ outbox' = IF envelope.ok
                           THEN outbox \cup {SubmitEncryptedBid(bidder, amount, envelope)}
                         ELSE outbox
           /\ UNCHANGED <<bidStore, verifyVars, parseVars, encryptVars, settleVars, decodeVars, pollVars, monitorVars, freshVars, waitVars, statusVars>>

(***************************************************************************)
(* Settlement calls.  An invocation of settleAuction advances from one     *)
(* await to the next; what the wallet, the ledger, the bids and            *)
(* settlements APIs and the cluster answer is chosen by the environment.   *)
(***************************************************************************)
MaxInv == 2

Invocations == 1..MaxInv

CreatorKey == Ramp(32, 50)

\* the wallet that calls settleAuction
WalletKey == WinnerA

Auction == [auctionId |-> "1", creator |-> CreatorKey, minimumBid |-> 1500000000]

AuctionIds == {"1", "9"}

BidOfA == StoredBid(BidData(WinnerA, 2000, NonceA))

BidOfB == StoredBid(BidData(WinnerB, 1500, NonceB))

\* what GET /api/bids?auctionId= can return
FetchedBidLists == {<<>>, <<BidOfB>>, <<BidOfA, BidOfB>>}

AccountData(key) == Fill(8, 1) \o key \o Fill(4, 0)

\* what connection.getAccountInfo(mxeProgramId) can return
AccountInfos ==
    { [exists |-> FALSE, executable |-> FALSE, data |-> <<>>],
      [exists |-> TRUE, executable |-> FALSE, data |-> AccountData(KeyA)],
      [exists |-> TRUE, executable |-> TRUE, data |-> AccountData(KeyA)],
      [exists |-> TRUE, executable |-> TRUE, data |-> Fill(40, 0)] }

ReserveEnvs ==
    [privateKey : {PrivA}, nonce : {NonceA}, strict : BOOLEAN, shape : {"bigint"}]

QueuedLine == Line("Program log: MPC computation queued", <<>>, NoJson)

\* a result whose proof was made for another computation id
PayloadForged == BinaryPayload(WinnerB, 9000, IdA, MakeProof(IdBitFlipped, KeyA, VkA))

\* what the polling of the computation signature can see before it gives up
PollOutcomes ==
    { [finalized |-> FALSE, logs |-> <<>>],
      [finalized |-> TRUE, logs |-> <<QueuedLine>>],
      [finalized |-> TRUE, logs |-> <<QueuedLine, ReturnLine(ProgramIdPlain, PayloadA)>>],
      [finalized |-> TRUE, logs |-> <<QueuedLine, ReturnLine(ProgramIdPlain, PayloadForged)>>],
      [finalized |-> TRUE, logs |-> <<QueuedLine, Line("Program log: MPC_RESULT:", <<>>, JsonB)>>] }

\* pollComputationResult on each of them, computed once
PolledOf == [outcome \in PollOutcomes |-> pollComputationResult(outcome)]

\* publicKey.toBase58() of the connected wallet
WalletAddress == toBase58(WalletKey)

\* a status test that lets every auction found through
MaySettle_StatusIgnored(connected, auctionId, status) ==
    connected /\ auctionId = Auction.auctionId

\* the guards of settleAuction: a connected wallet, an auction of the
\* client's list with that id, and a status other than SETTLED and CANCELLED
MaySettle(connected, auctionId, status) ==
    /\ connected
    /\ auctionId = Auction.auctionId
    /\ status \notin {"SETTLED", "CANCELLED"}

IdleInvocation ==
    [pc |-> "idle", auctionId |-> "", seenStatus |-> "", concurrent |-> FALSE,
     allBids |-> <<>>,
     mxeKey |-> <<>>, encryptedPrice |-> <<>>, mpcResult |-> NullResult,
     verdict |-> "none", mpcFailed |-> FALSE, refundAt |-> 0]

InFlight(i) == inv[i].pc \notin {"idle", "done"}

\* the invocation after the catch of a failed step: its locals are gone
Thrown(i) ==
    [IdleInvocation EXCEPT !.pc = "done", !.mpcFailed = TRUE,
                           !.auctionId = inv[i].auctionId,
                           !.seenStatus = inv[i].seenStatus,
                           !.concurrent = inv[i].concurrent]

SettleInit ==
    /\ cStatus \in {"ACTIVE", "SETTLED", "CANCELLED"}
    /\ loading = FALSE
    /\ inv = [i \in Invocations |-> IdleInvocation]
    /\ requests = {}
    /\ effects = {}

SettleIdle ==
    /\ cStatus = "ACTIVE"
    /\ loading = FALSE
    /\ inv = [i \in Invocations |-> IdleInvocation]
    /\ requests = {}
    /\ effects = {}

\* the wallet guard, setLoading(true), the auction lookup and the status
\* check; seenStatus is the auction.status the check read
SettleStart(i) ==
    \E connected \in BOOLEAN, auctionId \in AuctionIds :
        /\ inv[i].pc = "idle"
        /\ \A j \in Invocations : j < i => inv[j].pc # "idle"
        /\ inv' = [inv EXCEPT ![i].auctionId = IF connected THEN auctionId ELSE "",
                              ![i].seenStatus =
                                  IF connected /\ auctionId = Auction.auctionId
                                    THEN cStatus ELSE "",
                              ![i].concurrent =
                                  \E j \in Invocations \ {i} :
                                      InFlight(j) /\ inv[j].auctionId = auctionId,
                              ![i].pc =
                                  IF MaySettle(connected, auctionId, cStatus)
                                    THEN "fetchBids" ELSE "done"]
        /\ loading' = IF ~connected THEN loading ELSE (inv'[i].pc = "fetchBids")
        /\ UNCHANGED <<cStatus, requests, effects>>
        /\ UNCHANGED <<verifyVars, parseVars, encryptVars, bidVars, decodeVars, pollVars, monitorVars, freshVars, waitVars, statusVars>>

\* the answer of GET /api/bids, mapped to the bids of the computation
SettleFetchBids(i) ==
    \E allBids \in FetchedBidLists :
        /\ inv[i].pc = "fetchBids"
        /\ inv' = [inv EXCEPT ![i].allBids = allBids, ![i].pc = "initCluster"]
        /\ UNCHANGED <<cStatus, loading, requests, effects>>
        /\ UNCHANGED <<verifyVars, parseVars, encryptVars, bidVars, decodeVars, pollVars, monitorVars, freshVars, waitVars, statusVars>>

\* the provider check and initializeMXECluster
SettleInitCluster(i) ==
    \E ready \in BOOLEAN, account \in AccountInfos, configured \in {AbsentKey, KeyOf(KeyA)} :
        LET mxeCluster == initializeMXECluster(account, configured)
        IN /\ inv[i].pc = "initCluster"
           /\ IF ~ready \/ mxeCluster.threw
                THEN /\ inv' = [inv EXCEPT ![i] = Thrown(i)]
                     /\ loading' = FALSE
              ELSE /\ inv' = [inv EXCEPT ![i].mxeKey = mxeCluster.publicKey,
                                         ![i].pc = "encryptReserve"]
                   /\ UNCHANGED loading
           /\ UNCHANGED <<cStatus, requests, effects>>
           /\ UNCHANGED <<verifyVars, parseVars, encryptVars, bidVars, decodeVars, pollVars, monitorVars, freshVars, waitVars, statusVars>>

SettleEncryptReserve(i) ==
    \E env \in ReserveEnvs :
        LET reserve == encryptReservePriceForMXE(ReservePriceOf(Auction),
                                                 KeyOf(inv[i].mxeKey), env)
        IN /\ inv[i].pc = "encryptReserve"
           /\ IF ~reserve.ok
                THEN /\ inv' = [inv EXCEPT ![i] = Thrown(i)]
                     /\ loading' = FALSE
              ELSE /\ inv' = [inv EXCEPT ![i].encryptedPrice = reserve.ciphertext,
                                         ![i].pc = "queue"]
                   /\ UNCHANGED loading
           /\ UNCHANGED <<cStatus, requests, effects>>
           /\ UNCHANGED <<verifyVars, parseVars, encryptVars, bidVars, decodeVars, pollVars, monitorVars, freshVars, waitVars, statusVars>>

\* queueAuctionComputation: build the instruction, send it and confirm it
SettleQueue(i) ==
    \E confirmed \in BOOLEAN :
        /\ inv[i].pc = "queue"
        /\ IF ~confirmed
             THEN /\ inv' = [inv EXCEPT ![i] = Thrown(i)]
                  /\ loading' = FALSE
                  /\ UNCHANGED requests
           ELSE /\ inv' = [inv EXCEPT ![i].pc = "poll", ![i].encryptedPrice = <<>>]
                /\ requests' = requests \cup
                       {[inv |-> i,
                         fetched |-> inv[i].allBids,
                         reserve |-> inv[i].encryptedPrice,
                         request |-> createComputationInstruction(
                                         inv[i].auctionId,
                                         ToEncryptedBids(inv[i].allBids),
                                         inv[i].encryptedPrice)]}
                /\ UNCHANGED loading
        /\ UNCHANGED <<cStatus, effects>>
        /\ UNCHANGED <<verifyVars, parseVars, encryptVars, bidVars, decodeVars, pollVars, monitorVars, freshVars, waitVars, statusVars>>

SettlePoll(i) ==
    \E outcome \in PollOutcomes :
        LET polled == PolledOf[outcome]
        IN /\ inv[i].pc = "poll"
           /\ IF polled.threw
                THEN /\ inv' = [inv EXCEPT ![i] = Thrown(i)]
                     /\ loading' = FALSE
              ELSE /\ inv' = [inv EXCEPT ![i].mpcResult = polled.result, ![i].pc = "verify"]
                   /\ UNCHANGED loading
           /\ UNCHANGED <<cStatus, requests, effects>>
           /\ UNCHANGED <<verifyVars, parseVars, encryptVars, bidVars, decodeVars, pollVars, monitorVars, freshVars, waitVars, statusVars>>

\* verifyComputationProof on the result polled, and the throw on a false verdict
SettleVerify(i) ==
    LET isValid == verifyComputationProof(inv[i].mpcResult.computationProof,
                                          inv[i].mpcResult.computationId,
                                          inv[i].mxeKey).result
    IN /\ inv[i].pc = "verify"
       /\ IF ProofAccepted(isValid)
            THEN /\ inv' = [inv EXCEPT ![i].verdict = IF isValid THEN "true" ELSE "false",
                                       ![i].pc = "pay"]
                 /\ UNCHANGED loading
          ELSE /\ inv' = [inv EXCEPT ![i] = [Thrown(i) EXCEPT !.verdict = "false"]]
               /\ loading' = FALSE
       /\ UNCHANGED <<cStatus, requests, effects>>
       /\ UNCHANGED <<verifyVars, parseVars, encryptVars, bidVars, decodeVars, pollVars, monitorVars, freshVars, waitVars, statusVars>>

\* a failed payment ends the invocation
AfterPayment_Rethrown(sent) == IF sent THEN "refund" ELSE "done"

\* catch (paymentError) { console.warn(...) }: the refunds come next, whether
\* or not the payment was sent
AfterPayment(sent) == "refund"

\* the transfer of the winning amount to the creator; a failure is only logged
SettlePay(i) ==
    \E sent \in BOOLEAN :
        /\ inv[i].pc = "pay"
        /\ effects' = effects \cup
               {[inv |-> i, kind |-> "payment", k |-> 0, to |-> Auction.creator,
                 lamports |-> inv[i].mpcResult.winningAmount, ok |-> sent]}
        /\ inv' = [inv EXCEPT ![i].pc = AfterPayment(sent)]
        /\ UNCHANGED <<cStatus, loading, requests>>
        /\ UNCHANGED <<verifyVars, parseVars, encryptVars, bidVars, decodeVars, pollVars, monitorVars, freshVars, waitVars, statusVars>>

RefundsLeft(i) ==
    {k \in NonWinningBids(inv[i].allBids, inv[i].mpcResult.winner) : k > inv[i].refundAt}

\* one turn of the refund loop: bid.amount || 0.001, a failure is only logged
SettleRefund(i) ==
    \E sent \in BOOLEAN :
        /\ inv[i].pc = "refund"
        /\ RefundsLeft(i) # {}
        /\ LET k == FindFirst(RefundsLeft(i))
           IN /\ effects' = effects \cup
                     {[inv |-> i, kind |-> "refund", k |-> k, to |-> inv[i].allBids[k].bidder,
                       lamports |-> ToLamports(1), ok |-> sent]}
              /\ inv' = [inv EXCEPT ![i].refundAt = k]
        /\ UNCHANGED <<cStatus, loading, requests>>
        /\ UNCHANGED <<verifyVars, parseVars, encryptVars, bidVars, decodeVars, pollVars, monitorVars, freshVars, waitVars, statusVars>>

\* POST /api/settlements; a response that is not ok ends the call
SettleRecord(i) ==
    \E responseOk \in BOOLEAN :
        /\ inv[i].pc = "refund"
        /\ RefundsLeft(i) = {}
        /\ effects' = effects \cup
               {[inv |-> i, kind |-> "POST /api/settlements", k |-> 0,
                 to |-> inv[i].mpcResult.winner,
                 lamports |-> inv[i].mpcResult.winningAmount, ok |-> responseOk]}
        /\ inv' = [inv EXCEPT ![i].pc = IF responseOk THEN "notify" ELSE "done",
                              ![i].allBids = <<>>, ![i].refundAt = 0]
        /\ loading' = IF responseOk THEN loading ELSE FALSE
        /\ UNCHANGED <<cStatus, requests>>
        /\ UNCHANGED <<verifyVars, parseVars, encryptVars, bidVars, decodeVars, pollVars, monitorVars, freshVars, waitVars, statusVars>>

\* the settlement notification and, for the caller's own win, the win notification
SettleNotify(i) ==
    /\ inv[i].pc = "notify"
    /\ effects' = effects \cup
           {[inv |-> i, kind |-> kind, k |-> 0, to |-> inv[i].mpcResult.winner,
             lamports |-> inv[i].mpcResult.winningAmount, ok |-> TRUE] :
               kind \in {"settlement"} \cup
                        (IF inv[i].mpcResult.winner = WalletAddress THEN {"win"} ELSE {})}
    /\ inv' = [inv EXCEPT ![i].pc = "refresh"]
    /\ UNCHANGED <<cStatus, loading, requests>>
    /\ UNCHANGED <<verifyVars, parseVars, encryptVars, bidVars, decodeVars, pollVars, monitorVars, freshVars, waitVars, statusVars>>

\* refreshAuctions and the finally block
SettleRefresh(i) ==
    \E status \in {"ACTIVE", "SETTLED"} :
        /\ inv[i].pc = "refresh"
        /\ cStatus' = status
        /\ loading' = FALSE
        /\ inv' = [inv EXCEPT ![i].pc = "done"]
        /\ UNCHANGED <<requests, effects>>
        /\ UNCHANGED <<verifyVars, parseVars, encryptVars, bidVars, decodeVars, pollVars, monitorVars, freshVars, waitVars, statusVars>>

(***************************************************************************)
(* Specifications.                                                         *)
(***************************************************************************)
(***************************************************************************)
(* Calls of the binary result parser on payloads of every layout: four     *)
(* winners (one with leading zero bytes), amounts that use one to four     *)
(* bytes of the 64-bit field, two ids, proofs of 0, 8 and 96 bytes, and    *)
(* each payload cut to 0, 40 and 71 bytes.                                 *)
(***************************************************************************)
DecodeWinners == {WinnerA, WinnerB, Fill(32, 0), Ramp(32, 7)}

DecodeAmounts ==
    {UInt64LE(0), UInt64LE(1), UInt64LE(2500), <<1, 2, 3, 4, 0, 0, 0, 0>>,
     <<255, 255, 255, 127, 0, 0, 0, 0>>}

DecodeProofs == {<<>>, Ramp(8, 9), MakeProof(IdA, KeyA, VkA)}

CutLengths == {0, 40, 71}

FullPayloads ==
    {w \o a \o id \o proof :
        w \in DecodeWinners, a \in DecodeAmounts, id \in {IdA, IdBitFlipped},
        proof \in DecodeProofs}

DecodePayloads == FullPayloads \cup {Slice(p, 0, n) : p \in FullPayloads, n \in CutLengths}

DecodeInit ==
    /\ dBytes \in DecodePayloads
    /\ dResult = NotParsed

DecodeIdle ==
    /\ dBytes = <<>>
    /\ dResult = NotParsed

\* return parseArciumMpcResult(resultBytes)
DecodeCall ==
    /\ ~dResult.called
    /\ dResult' = [called |-> TRUE, value |-> parseArciumMpcResult(dBytes)]
    /\ UNCHANGED dBytes
    /\ UNCHANGED <<verifyVars, parseVars, encryptVars, bidVars, settleVars, pollVars, monitorVars, freshVars, waitVars, statusVars>>

(***************************************************************************)
(* The ledger as the polling sees it.  A transaction is [finalizes,        *)
(* finalAfter, failed, logs, reachable]: it shows as finalized from status *)
(* query finalAfter + 1 on (never, if it does not finalize), its status    *)
(* carries an error if it failed, its log messages are logs (absent when   *)
(* hasLogs is false), and a ledger call can be rejected by the network     *)
(* only if reachable is false.                                             *)
(***************************************************************************)
MaxPollAttempts == 3

NoStatus == [present |-> FALSE, confirmationStatus |-> "", err |-> FALSE]

SignatureStatus(confirmationStatus, err) ==
    [present |-> TRUE, confirmationStatus |-> confirmationStatus, err |-> err]

\* what getSignatureStatus can answer to status query number q
StatusAnswers(tx, q) ==
    IF tx.finalizes /\ q > tx.finalAfter
      THEN {SignatureStatus("finalized", tx.failed)}
    ELSE {NoStatus, SignatureStatus("processed", tx.failed),
          SignatureStatus("confirmed", tx.failed)}

TxLogs ==
    { [hasLogs |-> FALSE, lines |-> <<>>],
      [hasLogs |-> TRUE, lines |-> <<QueuedLine>>],
      [hasLogs |-> TRUE, lines |-> <<QueuedLine, ReturnLine(ProgramIdPlain, PayloadA)>>],
      [hasLogs |-> TRUE, lines |-> <<QueuedLine, Line("Program log: MPC_RESULT:", <<>>, JsonB)>>] }

\* parseComputationResult(transaction.meta.logMessages) for each of them,
\* computed once
ParsedLogs == [logs \in TxLogs |-> parseComputationResult(logs.lines)]

Transactions ==
    [finalizes : BOOLEAN, finalAfter : {0, 2}, failed : BOOLEAN, logs : TxLogs,
     reachable : BOOLEAN]

NoTransaction ==
    [finalizes |-> FALSE, finalAfter |-> 0, failed |-> FALSE,
     logs |-> [hasLogs |-> FALSE, lines |-> <<>>], reachable |-> TRUE]

NoPollOutcome == [kind |-> "none", result |-> NullResult]

PollInit ==
    /\ pollPc = "start"
    /\ maxAttempts \in 0..MaxPollAttempts
    /\ attempts = 0
    /\ pollTx \in {tx \in Transactions : tx.finalizes \/ tx.finalAfter = 0}
    /\ pollQueries = 0
    /\ pollWaits = 0
    /\ pollStatus = NoStatus
    /\ pollLogs = <<>>
    /\ pollOut = NoPollOutcome

PollIdle ==
    /\ pollPc = "idle"
    /\ maxAttempts = 0
    /\ attempts = 0
    /\ pollTx = NoTransaction
    /\ pollQueries = 0
    /\ pollWaits = 0
    /\ pollStatus = NoStatus
    /\ pollLogs = <<>>
    /\ pollOut = NoPollOutcome

KeepPolling_Inclusive(n, limit) == n <= limit

\* while (attempts < maxAttempts)
KeepPolling(n, limit) == n < limit

\* the call, and every return of the timer: while (attempts < maxAttempts)
\* issues the next getSignatureStatus, else throws the timeout error
PollLoopHead ==
    /\ pollPc \in {"start", "timer"}
    /\ pollWaits' = IF pollPc = "timer" THEN pollWaits + 1 ELSE pollWaits
    /\ IF KeepPolling(attempts, maxAttempts)
         THEN /\ pollPc' = "status"
              /\ pollQueries' = pollQueries + 1
              /\ UNCHANGED pollOut
       ELSE /\ pollPc' = "thrown"
            /\ pollOut' = [kind |-> "Computation result polling timeout", result |-> NullResult]
            /\ UNCHANGED pollQueries
    /\ UNCHANGED <<maxAttempts, attempts, pollTx, pollStatus, pollLogs>>
    /\ UNCHANGED <<verifyVars, parseVars, encryptVars, bidVars, settleVars, decodeVars, monitorVars, freshVars, waitVars, statusVars>>

\* getSignatureStatus answers: finalized goes on to getTransaction, anything
\* else to attempts++ and the timer
PollStatusAnswered ==
    /\ pollPc = "status"
    /\ \E status \in StatusAnswers(pollTx, pollQueries) :
          /\ pollStatus' = status
          /\ IF status.present /\ status.confirmationStatus = "finalized"
               THEN /\ pollPc' = "transaction"
                    /\ UNCHANGED attempts
             ELSE /\ pollPc' = "timer"
                  /\ attempts' = attempts + 1
    /\ UNCHANGED <<maxAttempts, pollTx, pollQueries, pollWaits, pollLogs, pollOut>>
    /\ UNCHANGED <<verifyVars, parseVars, encryptVars, bidVars, settleVars, decodeVars, monitorVars, freshVars, waitVars, statusVars>>

\* getTransaction answers: a parsed result is returned, anything else goes
\* to attempts++ and the timer
PollTransactionAnswered ==
    /\ pollPc = "transaction"
    /\ pollLogs' = pollTx.logs.lines
    /\ IF pollTx.logs.hasLogs /\ ParsedLogs[pollTx.logs].found
         THEN /\ pollPc' = "returned"
              /\ pollOut' = [kind |-> "result", result |-> ParsedLogs[pollTx.logs]]
              /\ UNCHANGED attempts
       ELSE /\ pollPc' = "timer"
            /\ attempts' = attempts + 1
            /\ UNCHANGED pollOut
    /\ UNCHANGED <<maxAttempts, pollTx, pollQueries, pollWaits, pollStatus>>
    /\ UNCHANGED <<verifyVars, parseVars, encryptVars, bidVars, settleVars, decodeVars, monitorVars, freshVars, waitVars, statusVars>>

\* a ledger call is rejected: the rejection leaves pollComputationResult as it is
PollCallRejected ==
    /\ pollPc \in {"status", "transaction"}
    /\ ~pollTx.reachable
    /\ pollPc' = "thrown"
    /\ pollOut' = [kind |-> "Failed to fetch", result |-> NullResult]
    /\ UNCHANGED <<maxAttempts, attempts, pollTx, pollQueries, pollWaits, pollStatus, pollLogs>>
    /\ UNCHANGED <<verifyVars, parseVars, encryptVars, bidVars, settleVars, decodeVars, monitorVars, freshVars, waitVars, statusVars>>

(***************************************************************************)
(* getComputationStatus and monitorComputationProgress (arciumMPC.ts).     *)
(* Times are in seconds.  An error message is the sequence of the texts    *)
(* it is put together from.                                                *)
(***************************************************************************)
\* the texts that hold the letters "fetch"
FetchTexts == {"Failed to fetch"}

\* error.message.includes('fetch')
IncludesFetch(message) == \E k \in 1..Len(message) : message[k] \in FetchTexts

\* what a ledger call is rejected with
RejectionTexts == {"Failed to fetch", "socket hang up"}

\* the err of a failed transaction
LedgerErrors == {"InstructionError:Custom", "InsufficientFundsForRent"}

parseError(error) ==
    IF error = "InstructionError:Custom" THEN "Instruction 0 failed with custom error: 6001"
    ELSE IF error = "InsufficientFundsForRent" THEN "Insufficient funds for rent"
    ELSE IF error = "AccountAlreadyInUse" THEN "Account already in use"
    ELSE IF error = "InvalidAccountData" THEN "Invalid account data"
    ELSE error

\* an answer of getSignatureStatus: rejected with a text, or a value (absent,
\* or with a confirmationStatus and possibly an err)
Rejected(text) == [rejected |-> TRUE, text |-> text, present |-> FALSE,
                   confirmationStatus |-> "", err |-> ""]

Answered(present, confirmationStatus, err) ==
    [rejected |-> FALSE, text |-> "", present |-> present,
     confirmationStatus |-> confirmationStatus, err |-> err]

ComputationStatus(status, progress, message, errorDetails) ==
    [status |-> status, progress |-> progress, message |-> message,
     errorDetails |-> errorDetails]

\* what getTransaction gives for the fee: rejected, no transaction, or a fee
FeeAnswers ==
    { [rejected |-> TRUE, found |-> FALSE, fee |-> 0],
      [rejected |-> FALSE, found |-> FALSE, fee |-> 0],
      [rejected |-> FALSE, found |-> TRUE, fee |-> 5000] }

\* gasUsed = transaction?.meta?.fee, asked only for a finalized transaction
\* without err; a rejected getTransaction is caught and leaves it undefined
gasUsedOf(answer, feeAnswer) ==
    IF ~answer.rejected /\ answer.present /\ answer.err = ""
          /\ answer.confirmationStatus = "finalized"
          /\ ~feeAnswer.rejected /\ feeAnswer.found
      THEN [defined |-> TRUE, fee |-> feeAnswer.fee]
    ELSE [defined |-> FALSE, fee |-> 0]

\* the confirmation level read before the err
getComputationStatus_LevelFirst(answer) ==
    IF answer.rejected
      THEN ComputationStatus("failed", 0, "Status check failed", answer.text)
    ELSE IF ~answer.present
      THEN ComputationStatus("pending", 0, "Computation queued, waiting for MPC network", "")
    ELSE IF answer.confirmationStatus = "finalized"
      THEN ComputationStatus("completed", 100, "MPC computation completed and verified", "")
    ELSE IF answer.err # ""
      THEN ComputationStatus("failed", 0, "Computation failed", parseError(answer.err))
    ELSE IF answer.confirmationStatus = "processed"
      THEN ComputationStatus("processing", 30, "MPC computation processed by validators", "")
    ELSE IF answer.confirmationStatus = "confirmed"
      THEN ComputationStatus("processing", 70, "Computation confirmed, finalizing...", "")
    ELSE ComputationStatus("processing", 10, "Processing transaction", "")

\* getComputationStatus on the answer of getSignatureStatus; for a finalized
\* transaction the fee is asked for first, and whatever that gives, the
\* status returned is the same
getComputationStatus(answer) ==
    IF answer.rejected
      THEN ComputationStatus("failed", 0, "Status check failed", answer.text)
    ELSE IF ~answer.present
      THEN ComputationStatus("pending", 0, "Computation queued, waiting for MPC network", "")
    ELSE IF answer.err # ""
      THEN ComputationStatus("failed", 0, "Computation failed", parseError(answer.err))
    ELSE IF answer.confirmationStatus = "processed"
      THEN ComputationStatus("processing", 30, "MPC computation processed by validators", "")
    ELSE IF answer.confirmationStatus = "confirmed"
      THEN ComputationStatus("processing", 70, "Computation confirmed, finalizing...", "")
    ELSE IF answer.confirmationStatus = "finalized"
      THEN ComputationStatus("completed", 100, "MPC computation completed and verified", "")
    ELSE ComputationStatus("processing", 10, "Processing transaction", "")

\* `Computation failed: ${status.message}${errorDetails ? ` - ${errorDetails}` : ''}`
FailedMessage(status) ==
    IF status.errorDetails # ""
      THEN <<"Computation failed: ", status.message, " - ", status.errorDetails>>
    ELSE <<"Computation failed: ", status.message>>

\* const waitTime = status.status === 'pending' ? 5000 : 2000
WaitTime(status) == IF status.status = "pending" THEN 5 ELSE 2

FetchRetryWait == 10

WithinTimeout_Inclusive(elapsed, timeoutMs) == elapsed <= timeoutMs

\* while (Date.now() - startTime < timeoutMs)
WithinTimeout(elapsed, timeoutMs) == elapsed < timeoutMs

\* the catch of the loop body: a message with "fetch" in it waits and goes
\* round again, any other error leaves the function
Caught(m, message) ==
    IF IncludesFetch(message)
      THEN [m EXCEPT !.pc = "timer", !.waitTime = FetchRetryWait]
    ELSE [m EXCEPT !.pc = "thrown", !.out = [kind |-> "error", message |-> message,
                                            result |-> NullResult]]

\* the loop body from the status on: onProgress and lastProgress, then
\* completed goes to getTransaction, failed throws, anything else waits
AfterStatus(m, status) ==
    LET reported == m.hasOnProgress /\ status.progress # m.lastProgress
        m1 == IF reported THEN [m EXCEPT !.lastProgress = status.progress] ELSE m
    IN IF status.status = "completed" THEN [m1 EXCEPT !.pc = "transaction"]
       ELSE IF status.status = "failed" THEN Caught(m1, FailedMessage(status))
       ELSE [m1 EXCEPT !.pc = "timer", !.waitTime = WaitTime(status)]

\* the loop body after getTransaction
AfterTransaction(m, rejected, text, logs, parsed) ==
    IF rejected THEN Caught(m, <<text>>)
    ELSE IF ~logs.hasLogs THEN Caught(m, <<"No transaction logs available">>)
    ELSE IF ~parsed.found THEN Caught(m, <<"Could not parse computation results">>)
    ELSE [m EXCEPT !.pc = "returned", !.out = [kind |-> "result", message |-> <<>>,
                                              result |-> parsed]]

\* what the run has observed: the status queries made, the time of the last
\* one, the query at which failed or completed was first seen, the progress
\* of the last two statuses, and of the last two onProgress calls
NoHistory ==
    [queries |-> 0, lastQueryAt |-> 0, terminalAt |-> 0, terminal |-> "",
     prevProgress |-> -1, progress |-> -1, prevReported |-> -1, reported |-> -1]

Recorded(h, m, status) ==
    LET h1 == [h EXCEPT !.prevProgress = h.progress, !.progress = status.progress,
                        !.terminalAt = IF h.terminalAt = 0
                                          /\ status.status \in {"failed", "completed"}
                                         THEN h.queries ELSE h.terminalAt,
                        !.terminal = IF h.terminalAt = 0
                                        /\ status.status \in {"failed", "completed"}
                                       THEN status.status ELSE h.terminal]
    IN IF m.hasOnProgress /\ status.progress # m.lastProgress
         THEN [h1 EXCEPT !.prevReported = h.reported, !.reported = status.progress]
       ELSE h1

(***************************************************************************)
(* Runs of monitorComputationProgress.                                     *)
(***************************************************************************)
MaxClock == 40

MonitorTimeouts == {0, 5, 9}

CallDurations == {0, 1}

MonitorLogs ==
    { [hasLogs |-> FALSE, lines |-> <<>>],
      [hasLogs |-> TRUE, lines |-> <<QueuedLine>>],
      [hasLogs |-> TRUE, lines |-> <<QueuedLine, ReturnLine(ProgramIdPlain, PayloadA)>>] }

MonitorParsed == [logs \in MonitorLogs |-> parseComputationResult(logs.lines)]

\* the transaction watched: its err ("" if it did not fail) and its logs
MonitorTransactions == [err : {""} \cup LedgerErrors, logs : MonitorLogs]

\* what getSignatureStatus can answer at any query
StatusAnswersFor(tx) ==
    {Rejected(text) : text \in RejectionTexts}
      \cup {Answered(FALSE, "", "")}
      \cup {Answered(TRUE, c, tx.err) : c \in {"processed", "confirmed", "finalized", ""}}

Tick(d) == Min(now + d, MaxClock)

NoMonitorOutcome == [kind |-> "none", message |-> <<>>, result |-> NullResult]

MonitorInit ==
    /\ now \in {0, 3}
    /\ mon \in [pc : {"start"}, startTime : {0}, timeoutMs : MonitorTimeouts,
                 lastProgress : {0}, hasOnProgress : BOOLEAN, waitTime : {0},
                 out : {NoMonitorOutcome}]
    /\ monTx \in MonitorTransactions
    /\ monHist = NoHistory

MonitorIdle ==
    /\ now = 0
    /\ mon = [pc |-> "idle", startTime |-> 0, timeoutMs |-> 0, lastProgress |-> 0,
              hasOnProgress |-> FALSE, waitTime |-> 0, out |-> NoMonitorOutcome]
    /\ monTx = [err |-> "", logs |-> [hasLogs |-> FALSE, lines |-> <<>>]]
    /\ monHist = NoHistory

\* const startTime = Date.now(); let lastProgress = 0, then the loop head
MonitorCall ==
    /\ mon.pc = "start"
    /\ mon' = [mon EXCEPT !.pc = "head", !.startTime = now]
    /\ UNCHANGED <<now, monTx, monHist>>
    /\ UNCHANGED <<verifyVars, parseVars, encryptVars, bidVars, settleVars, decodeVars, pollVars, freshVars, waitVars, statusVars>>

\* the timer of a wait fires, no earlier than waitTime after it was set
MonitorTimerFired ==
    /\ mon.pc = "timer"
    /\ \E late \in CallDurations : now' = Tick(mon.waitTime + late)
    /\ mon' = [mon EXCEPT !.pc = "head"]
    /\ UNCHANGED <<monTx, monHist>>
    /\ UNCHANGED <<verifyVars, parseVars, encryptVars, bidVars, settleVars, decodeVars, pollVars, freshVars, waitVars, statusVars>>

\* while (Date.now() - startTime < timeoutMs): the next status query, or the
\* timeout error
MonitorLoopHead ==
    /\ mon.pc = "head"
    /\ IF WithinTimeout(now - mon.startTime, mon.timeoutMs)
         THEN /\ mon' = [mon EXCEPT !.pc = "status"]
              /\ monHist' = [monHist EXCEPT !.queries = monHist.queries + 1,
                                             !.lastQueryAt = now]
       ELSE /\ mon' = [mon EXCEPT !.pc = "thrown",
                                   !.out = [kind |-> "timeout",
                                            message |-> <<"Computation monitoring timeout after ">>,
                                            result |-> NullResult]]
            /\ UNCHANGED monHist
    /\ UNCHANGED <<now, monTx>>
    /\ UNCHANGED <<verifyVars, parseVars, encryptVars, bidVars, settleVars, decodeVars, pollVars, freshVars, waitVars, statusVars>>

\* getComputationStatus returns (its ledger calls answered or rejected) and
\* the loop body runs to its next await, return or throw
MonitorStatusAnswered ==
    /\ mon.pc = "status"
    /\ \E answer \in StatusAnswersFor(monTx), d \in CallDurations :
          /\ now' = Tick(d)
          /\ mon' = AfterStatus(mon, getComputationStatus(answer))
          /\ monHist' = Recorded(monHist, mon, getComputationStatus(answer))
    /\ UNCHANGED monTx
    /\ UNCHANGED <<verifyVars, parseVars, encryptVars, bidVars, settleVars, decodeVars, pollVars, freshVars, waitVars, statusVars>>

\* getTransaction of the completed computation is answered or rejected
MonitorTransactionAnswered ==
    /\ mon.pc = "transaction"
    /\ \E rejected \in BOOLEAN, text \in RejectionTexts, d \in CallDurations :
          /\ now' = Tick(d)
          /\ mon' = AfterTransaction(mon, rejected, text, monTx.logs,
                                     MonitorParsed[monTx.logs])
    /\ UNCHANGED <<monTx, monHist>>
    /\ UNCHANGED <<verifyVars, parseVars, encryptVars, bidVars, settleVars, decodeVars, pollVars, freshVars, waitVars, statusVars>>

(***************************************************************************)
(* Sequences of encryption calls on one random generator.  The generator   *)
(* is idealised: the block it hands out at its k-th draw differs from      *)
(* every block handed out before, in each of its bytes.  drawn is the      *)
(* number of draws made so far; a call is recorded with its outcome, its   *)
(* amount and cluster key, and the draws made during it.                   *)
(***************************************************************************)
MaxCalls == 3

\* the block of the k-th draw of a generator (0: crypto, 1: Math.random)
RandomBlock(generator, k, length) ==
    [i \in 1..length |-> (128 * generator + 16 * k + i) % 256]

getRandomValues_Replayed(state, k, length) == RandomBlock(0, k, length)

\* crypto.getRandomValues(new Uint8Array(length)), the k-th draw of a call
\* that starts with the generator in the given state
getRandomValues(state, k, length) == RandomBlock(0, state + k, length)

\* shadowProtocol.ts randomBytes: window.crypto if there is one, else Math.random
randomBytes(state, k, length, hasWindowCrypto) ==
    IF hasWindowCrypto THEN getRandomValues(state, k, length)
    ELSE RandomBlock(1, state + k, length)

\* the draws of a call of arciumMPC.ts or encryption.ts: the private key
\* first, the nonce second
KeyThenNonce(state, strict, shape) ==
    [privateKey |-> getRandomValues(state, 1, 32), nonce |-> getRandomValues(state, 2, 16),
     strict |-> strict, shape |-> shape]

\* the draws of a call of shadowProtocol.ts: the nonce first (randomBytes),
\* the private key second
NonceThenKey(state, hasWindowCrypto, strict, shape) ==
    [privateKey |-> getRandomValues(state, 2, 32),
     nonce |-> randomBytes(state, 1, 16, hasWindowCrypto),
     strict |-> strict, shape |-> shape]

\* a cluster key that works and one that is missing
CallKeys == {KeyOf(KeyA), AbsentKey}

CallAmounts == {1500}

FreshInit ==
    /\ drawn = 0
    /\ calls = <<>>
    /\ windowCrypto \in BOOLEAN

FreshIdle ==
    /\ drawn = 0
    /\ calls = <<>>
    /\ windowCrypto = FALSE

\* encryptBidForMXE: getSharedSecret throws before the nonce is drawn
FreshEncryptBidForMXE ==
    /\ Len(calls) < MaxCalls
    /\ \E amount \in CallAmounts, key \in CallKeys :
          LET out == encryptBidForMXE(amount, "bidder1", key, KeyThenNonce(drawn, TRUE, "bigint"))
          IN /\ calls' = Append(calls, [out |-> out, amount |-> amount, key |-> key,
                                        from |-> drawn + 1, to |-> drawn + (IF out.ok THEN 2 ELSE 1)])
             /\ drawn' = drawn + (IF out.ok THEN 2 ELSE 1)
             /\ UNCHANGED windowCrypto
    /\ UNCHANGED <<verifyVars, parseVars, encryptVars, bidVars, settleVars, decodeVars, pollVars, monitorVars, waitVars, statusVars>>

\* encryptReservePriceForMXE, as settleAuction calls it on every attempt
FreshEncryptReservePriceForMXE ==
    /\ Len(calls) < MaxCalls
    /\ \E amount \in CallAmounts, key \in CallKeys :
          LET out == encryptReservePriceForMXE(amount, key, KeyThenNonce(drawn, TRUE, "bigint"))
          IN /\ calls' = Append(calls, [out |-> out, amount |-> amount, key |-> key,
                                        from |-> drawn + 1, to |-> drawn + (IF out.ok THEN 2 ELSE 1)])
             /\ drawn' = drawn + (IF out.ok THEN 2 ELSE 1)
             /\ UNCHANGED windowCrypto
    /\ UNCHANGED <<verifyVars, parseVars, encryptVars, bidVars, settleVars, decodeVars, pollVars, monitorVars, waitVars, statusVars>>

\* encryptBidAmount: the private key is drawn only for a 32-byte cluster key
FreshEncryptBidAmount ==
    /\ Len(calls) < MaxCalls
    /\ \E amount \in CallAmounts, key \in CallKeys :
          LET out == encryptBidAmount(amount, key,
                                      NonceThenKey(drawn, windowCrypto, TRUE, "bigint"))
          IN /\ calls' = Append(calls, [out |-> out, amount |-> amount, key |-> key,
                                        from |-> drawn + 1,
                                        to |-> drawn + (IF key.present /\ Len(key.bytes) = 32
                                                        THEN 2 ELSE 1)])
             /\ drawn' = drawn + (IF key.present /\ Len(key.bytes) = 32 THEN 2 ELSE 1)
             /\ UNCHANGED windowCrypto
    /\ UNCHANGED <<verifyVars, parseVars, encryptVars, bidVars, settleVars, decodeVars, pollVars, monitorVars, waitVars, statusVars>>

\* encryptReservePrice
FreshEncryptReservePrice ==
    /\ Len(calls) < MaxCalls
    /\ \E amount \in CallAmounts, key \in CallKeys :
          LET out == encryptReservePrice(amount, key,
                                         NonceThenKey(drawn, windowCrypto, TRUE, "bigint"))
          IN /\ calls' = Append(calls, [out |-> out, amount |-> amount, key |-> key,
                                        from |-> drawn + 1,
                                        to |-> drawn + (IF key.present /\ Len(key.bytes) = 32
                                                        THEN 2 ELSE 1)])
             /\ drawn' = drawn + (IF key.present /\ Len(key.bytes) = 32 THEN 2 ELSE 1)
             /\ UNCHANGED windowCrypto
    /\ UNCHANGED <<verifyVars, parseVars, encryptVars, bidVars, settleVars, decodeVars, pollVars, monitorVars, waitVars, statusVars>>

\* EncryptionManager.encryptValue
FreshEncryptValue ==
    /\ Len(calls) < MaxCalls
    /\ \E amount \in CallAmounts, key \in CallKeys :
          LET out == encryptValue(ToLamports(amount), key, EncryptionManagerKey(AbsentKey),
                                  KeyThenNonce(drawn, TRUE, "array"))
          IN /\ calls' = Append(calls, [out |-> out, amount |-> amount, key |-> key,
                                        from |-> drawn + 1, to |-> drawn + (IF out.ok THEN 2 ELSE 1)])
             /\ drawn' = drawn + (IF out.ok THEN 2 ELSE 1)
             /\ UNCHANGED windowCrypto
    /\ UNCHANGED <<verifyVars, parseVars, encryptVars, bidVars, settleVars, decodeVars, pollVars, monitorVars, waitVars, statusVars>>

(***************************************************************************)
(* ShadowProtocolClient.waitForComputation.  The computation of the        *)
(* settlement transaction advances on the ledger on its own; the client    *)
(* calls waitForComputation once, at any time.                             *)
(***************************************************************************)
MaxWaitClock == 4

TxSignatures == {"sigA", "sigB"}

WaitTimes == {1, 2, 60}

ComputationStates == <<"queued", "processing", "completed">>

NotWaiting == [called |-> FALSE, resolved |-> FALSE, rejected |-> FALSE,
               value |-> "", calledAt |-> 0]

NoWaitArgs == [txSignature |-> "", maxWaitTime |-> 0]

WaitInit ==
    /\ wArgs \in [txSignature : TxSignatures, maxWaitTime : WaitTimes]
    /\ wait = NotWaiting
    /\ computation = 1
    /\ wNow = 0

WaitIdle ==
    /\ wArgs = NoWaitArgs
    /\ wait = NotWaiting
    /\ computation = 1
    /\ wNow = 0

\* async waitForComputation(txSignature, maxWaitTime = 60000) { return txSignature; }
waitForComputation(txSignature, maxWaitTime) ==
    [resolved |-> TRUE, rejected |-> FALSE, value |-> txSignature]

WaitForComputationCall ==
    /\ ~wait.called
    /\ wArgs # NoWaitArgs
    /\ wait' = [called |-> TRUE,
                resolved |-> waitForComputation(wArgs.txSignature, wArgs.maxWaitTime).resolved,
                rejected |-> waitForComputation(wArgs.txSignature, wArgs.maxWaitTime).rejected,
                value |-> waitForComputation(wArgs.txSignature, wArgs.maxWaitTime).value,
                calledAt |-> wNow]
    /\ UNCHANGED <<wArgs, computation, wNow, verifyVars, parseVars, encryptVars, bidVars, settleVars, decodeVars, pollVars, monitorVars, freshVars, statusVars>>

\* the cluster works on the computation: queued, processing, completed
ComputationAdvances ==
    /\ wArgs # NoWaitArgs
    /\ computation < Len(ComputationStates)
    /\ computation' = computation + 1
    /\ UNCHANGED <<wArgs, wait, wNow, verifyVars, parseVars, encryptVars, bidVars, settleVars, decodeVars, pollVars, monitorVars, freshVars, statusVars>>

WaitClockTick ==
    /\ wArgs # NoWaitArgs
    /\ wNow < MaxWaitClock
    /\ wNow' = wNow + 1
    /\ UNCHANGED <<wArgs, wait, computation, verifyVars, parseVars, encryptVars, bidVars, settleVars, decodeVars, pollVars, monitorVars, freshVars, statusVars>>

(***************************************************************************)
(* Single calls of getComputationStatus, over every answer of the ledger.  *)
(***************************************************************************)
StatusErrors == LedgerErrors \cup {"AccountAlreadyInUse", "InvalidAccountData", "BlockhashNotFound"}

ConfirmationLevels == {"processed", "confirmed", "finalized", ""}

SignatureAnswers ==
    {Rejected(text) : text \in RejectionTexts}
      \cup {Answered(FALSE, "", "")}
      \cup {Answered(TRUE, c, err) : c \in ConfirmationLevels, err \in {""} \cup StatusErrors}

NoStatusCall ==
    [called |-> FALSE, out |-> ComputationStatus("", 0, "", ""),
     gasUsed |-> [defined |-> FALSE, fee |-> 0]]

StatusInit ==
    /\ sAnswer \in SignatureAnswers
    /\ sFee \in FeeAnswers
    /\ sCall = NoStatusCall

StatusIdle ==
    /\ sAnswer = Answered(FALSE, "", "")
    /\ sFee = [rejected |-> FALSE, found |-> FALSE, fee |-> 0]
    /\ sCall = NoStatusCall

\* getComputationStatus(connection, computationSignature): every path of
\* the body ends in a return, the catch included
GetComputationStatusCall ==
    /\ ~sCall.called
    /\ sCall' = [called |-> TRUE,
                 out |-> getComputationStatus(sAnswer),
                 gasUsed |-> gasUsedOf(sAnswer, sFee)]
    /\ UNCHANGED <<sAnswer, sFee, verifyVars, parseVars, encryptVars, bidVars, settleVars, decodeVars, pollVars, monitorVars, freshVars, waitVars>>

VerifyNext == VerifyCall /\ UNCHANGED <<parseVars, encryptVars, bidVars, settleVars, decodeVars, pollVars, monitorVars, freshVars, waitVars, statusVars>>

InitVerify == VerifyInit /\ ParseIdle /\ EncryptIdle /\ BidIdle /\ SettleIdle /\ DecodeIdle /\ PollIdle /\ MonitorIdle /\ FreshIdle /\ WaitIdle /\ StatusIdle

SpecVerify == InitVerify /\ [][VerifyNext]_vars

ParseNext == ParseCall /\ UNCHANGED <<verifyVars, encryptVars, bidVars, settleVars, decodeVars, pollVars, monitorVars, freshVars, waitVars, statusVars>>

InitParse == ParseInit /\ VerifyIdle /\ EncryptIdle /\ BidIdle /\ SettleIdle /\ DecodeIdle /\ PollIdle /\ MonitorIdle /\ FreshIdle /\ WaitIdle /\ StatusIdle

SpecParse == InitParse /\ [][ParseNext]_vars

EncryptNext ==
    \/ EncryptBidForMXECall
    \/ EncryptReservePriceForMXECall
    \/ EncryptBidAmountCall
    \/ EncryptReservePriceCall
    \/ EncryptValueCall
    \/ DecryptDataCall

InitEncrypt == EncryptInit /\ VerifyIdle /\ ParseIdle /\ BidIdle /\ SettleIdle /\ DecodeIdle /\ PollIdle /\ MonitorIdle /\ FreshIdle /\ WaitIdle /\ StatusIdle

SpecEncrypt == InitEncrypt /\ [][EncryptNext]_vars

BidNext ==
    \/ SubmitBid
    \/ ProtocolSubmitBid

InitBid == BidInit /\ VerifyIdle /\ ParseIdle /\ EncryptIdle /\ SettleIdle /\ DecodeIdle /\ PollIdle /\ MonitorIdle /\ FreshIdle /\ WaitIdle /\ StatusIdle

SpecBid == InitBid /\ [][BidNext]_vars

SettleNext ==
    \E i \in Invocations :
        \/ SettleStart(i)
        \/ SettleFetchBids(i)
        \/ SettleInitCluster(i)
        \/ SettleEncryptReserve(i)
        \/ SettleQueue(i)
        \/ SettlePoll(i)
        \/ SettleVerify(i)
        \/ SettlePay(i)
        \/ SettleRefund(i)
        \/ SettleRecord(i)
        \/ SettleNotify(i)
        \/ SettleRefresh(i)

InitSettle == SettleInit /\ VerifyIdle /\ ParseIdle /\ EncryptIdle /\ BidIdle /\ DecodeIdle /\ PollIdle /\ MonitorIdle /\ FreshIdle /\ WaitIdle /\ StatusIdle

SpecSettle == InitSettle /\ [][SettleNext]_vars

DecodeNext == DecodeCall

InitDecode == DecodeInit /\ VerifyIdle /\ ParseIdle /\ EncryptIdle /\ BidIdle /\ SettleIdle /\ PollIdle /\ MonitorIdle /\ FreshIdle /\ WaitIdle /\ StatusIdle

SpecDecode == InitDecode /\ [][DecodeNext]_vars

PollNext ==
    \/ PollLoopHead
    \/ PollStatusAnswered
    \/ PollTransactionAnswered
    \/ PollCallRejected

InitPoll ==
    PollInit /\ VerifyIdle /\ ParseIdle /\ EncryptIdle /\ BidIdle /\ SettleIdle /\ DecodeIdle /\ MonitorIdle /\ FreshIdle /\ WaitIdle /\ StatusIdle

SpecPoll == InitPoll /\ [][PollNext]_vars

\* every ledger call is answered or rejected and every timer fires
FairSpecPoll == SpecPoll /\ WF_vars(PollNext)

MonitorNext ==
    \/ MonitorCall
    \/ MonitorTimerFired
    \/ MonitorLoopHead
    \/ MonitorStatusAnswered
    \/ MonitorTransactionAnswered

InitMonitor ==
    MonitorInit /\ VerifyIdle /\ ParseIdle /\ EncryptIdle /\ BidIdle /\ SettleIdle /\ DecodeIdle /\ PollIdle /\ FreshIdle /\ WaitIdle /\ StatusIdle

SpecMonitor == InitMonitor /\ [][MonitorNext]_vars

\* every ledger call is answered or rejected, every timer fires, and the
\* clock advances with them
FairSpecMonitor == SpecMonitor /\ WF_vars(MonitorNext)

FreshNext ==
    \/ FreshEncryptBidForMXE
    \/ FreshEncryptReservePriceForMXE
    \/ FreshEncryptBidAmount
    \/ FreshEncryptReservePrice
    \/ FreshEncryptValue

InitFresh ==
    FreshInit /\ VerifyIdle /\ ParseIdle /\ EncryptIdle /\ BidIdle /\ SettleIdle /\ DecodeIdle /\ PollIdle /\ MonitorIdle /\ WaitIdle /\ StatusIdle

SpecFresh == InitFresh /\ [][FreshNext]_vars

WaitNext ==
    \/ WaitForComputationCall
    \/ ComputationAdvances
    \/ WaitClockTick

InitWait == WaitInit /\ VerifyIdle /\ ParseIdle /\ EncryptIdle /\ BidIdle /\ SettleIdle /\ DecodeIdle /\ PollIdle /\ MonitorIdle /\ FreshIdle /\ StatusIdle

SpecWait == InitWait /\ [][WaitNext]_vars

StatusNext == GetComputationStatusCall

InitStatus == StatusInit /\ VerifyIdle /\ ParseIdle /\ EncryptIdle /\ BidIdle /\ SettleIdle /\ DecodeIdle /\ PollIdle /\ MonitorIdle /\ FreshIdle /\ WaitIdle

SpecStatus == InitStatus /\ [][StatusNext]_vars

(***************************************************************************)
(* Claims about the Proof Verifier, checked under SpecVerify.              *)
(***************************************************************************)
vProofBytes == HexDecode(vProof)

vIdBytes == HexDecode(vComputationId)

\* proof[0:32] is the signature of (tag, id, proof[32:64], cluster key) under proof[32:64]
SignatureHolds ==
    /\ Len(vProofBytes) >= 64
    /\ SubSeq(vProofBytes, 1, 32) =
         ed25519Sign(SubSeq(vProofBytes, 33, 64),
                     TagVerification \o vIdBytes \o SubSeq(vProofBytes, 33, 64) \o vMxeKey)

\* proof[64:96] is present and is SHA-256(tag-2, id, cluster key)
IntegrityHashHolds ==
    /\ Len(vProofBytes) >= 96
    /\ SubSeq(vProofBytes, 65, 96) = sha256(TagIntegrity \o vIdBytes \o vMxeKey)

\* C3: the verifier returns true only when the signature check and the
\* integrity-hash check both pass; a valid signature with a wrong or absent
\* hash, and a matching hash with an invalid signature, are both rejected.
C3_BothChecksRequired ==
    vReturn.called =>
        /\ vReturn.result => (SignatureHolds /\ IntegrityHashHolds)
        /\ (SignatureHolds /\ ~IntegrityHashHolds) => ~vReturn.result
        /\ (IntegrityHashHolds /\ ~SignatureHolds) => ~vReturn.result

\* a proof of full length with a valid signature and one corrupted hash byte was rejected
C3_Witness ==
    /\ vReturn.called
    /\ ~vReturn.result
    /\ SignatureHolds
    /\ Len(vProofBytes) >= 96
    /\ ~IntegrityHashHolds

\* C4: a proof accepted for computation id I and cluster key K is rejected
\* with every other 32-byte id and with every other cluster key.
C4_ProofBoundToContext ==
    (vReturn.called /\ vReturn.result) =>
        /\ \A id \in IdStrings :
              (Len(HexDecode(id)) = 32 /\ HexDecode(id) # vIdBytes)
                  => ~verifyComputationProof(vProof, id, vMxeKey).result
        /\ \A key \in ClusterKeys :
              key # vMxeKey => ~verifyComputationProof(vProof, vComputationId, key).result

\* a proof was accepted, and the universe holds an id one bit away and another key
C4_Witness ==
    /\ vReturn.called
    /\ vReturn.result
    /\ vIdBytes = IdA
    /\ HexEncode(IdBitFlipped) \in IdStrings
    /\ ClusterKeys \ {vMxeKey} # {}

\* C5: a proof shorter than 64 bytes, or an id that is not 32 bytes, is
\* rejected before any signature or hash computation.
C5_LengthChecksFirst ==
    (vReturn.called /\ (Len(vProofBytes) < 64 \/ Len(vIdBytes) # 32)) =>
        /\ ~vReturn.result
        /\ vReturn.sigChecks = 0
        /\ vReturn.hashChecks = 0

\* a full proof made for a 31-byte id was presented with that id and rejected
C5_Witness ==
    /\ vReturn.called
    /\ vIdBytes = IdShort
    /\ vProofBytes = MakeProof(IdShort, vMxeKey, VkA)
    /\ ~vReturn.result

\* a proof one byte short of the minimum was rejected
C5_WitnessShortProof ==
    /\ vReturn.called
    /\ Len(vProofBytes) = 63
    /\ Len(vIdBytes) = 32
    /\ ~vReturn.result

(***************************************************************************)
(* Claims about the Result Parser, checked under SpecParse.                *)
(***************************************************************************)
\* "Program return: <program id> <base64>": one blank, after a non-empty
\* program id, and a payload of at least 72 bytes
WellFormedReturnLine(line) ==
    /\ line.prefix = "Program return: "
    /\ Cardinality({k \in 1..Len(line.rest) : line.rest[k] = 32}) = 1
    /\ \E k \in 2..(Len(line.rest) - 1) :
          /\ line.rest[k] = 32
          /\ ((Len(line.rest) - k) * 6) \div 8 >= 72

PayloadOf(line) ==
    LET k == CHOOSE k \in 1..Len(line.rest) : line.rest[k] = 32
    IN Base64Decode(SubSeq(line.rest, k + 1, Len(line.rest)))

\* the result the binary layout gives for a payload
BinaryResultOf(payload) ==
    [found |-> TRUE,
     winner |-> toBase58(SubSeq(payload, 1, 32)),
     winningAmount |-> ReadUInt64LE(payload, 32),
     rankings |-> <<>>,
     computationProof |-> HexEncode(SubSeq(payload, 73, Len(payload))),
     computationId |-> HexEncode(SubSeq(payload, 41, 72))]

WellFormedJsonLine(line) == line.prefix = "Program log: MPC_RESULT:" /\ line.json.wellFormed

\* C10: when the logs hold the queued marker, a well-formed binary
\* return-data line and a well-formed MPC_RESULT: line, in any order, the
\* parser returns the result decoded from the binary payload.
C10_BinaryPreferred ==
    (/\ pResult.called
     /\ \E i \in 1..Len(pLogs) : IsQueuedMarker(pLogs[i])
     /\ \E i \in 1..Len(pLogs) : WellFormedReturnLine(pLogs[i])
     /\ \E i \in 1..Len(pLogs) : WellFormedJsonLine(pLogs[i]))
        => \E i \in 1..Len(pLogs) :
              /\ WellFormedReturnLine(pLogs[i])
              /\ pResult.value = BinaryResultOf(PayloadOf(pLogs[i]))

\* a return line that the binary format reads: a program id without blank,
\* backslash or s, one blank, then the payload
ReadableReturnLine(line) ==
    /\ line.prefix = "Program return: "
    /\ Cardinality({k \in 1..Len(line.rest) : line.rest[k] = 32}) = 1
    /\ \E k \in 2..(Len(line.rest) - 1) :
          /\ line.rest[k] = 32
          /\ \A j \in 1..(k - 1) : line.rest[j] \notin {92, 115}

\* the result the JSON event gives
JsonResultOf(json) ==
    [found |-> TRUE, winner |-> json.winner, winningAmount |-> json.winningAmount,
     rankings |-> json.rankings, computationProof |-> json.proof,
     computationId |-> json.computationId]

\* C11: when the binary format yields no result because the payload of the
\* return line decodes to fewer than 72 bytes, and the logs hold the queued
\* marker and well-formed MPC_RESULT: lines only, the parser returns the
\* result of the JSON line.
C11_FallsBackToJson ==
    (/\ pResult.called
     /\ \E i \in 1..Len(pLogs) : IsQueuedMarker(pLogs[i])
     /\ \E i \in 1..Len(pLogs) :
           ReadableReturnLine(pLogs[i]) /\ Len(PayloadOf(pLogs[i])) < 72
     /\ \A i \in 1..Len(pLogs) : ~WellFormedReturnLine(pLogs[i])
     /\ \E i \in 1..Len(pLogs) : WellFormedJsonLine(pLogs[i])
     /\ \A i \in 1..Len(pLogs) : IsResultEvent(pLogs[i]) => WellFormedJsonLine(pLogs[i]))
        => \E i \in 1..Len(pLogs) :
              /\ WellFormedJsonLine(pLogs[i])
              /\ pResult.value = JsonResultOf(pLogs[i].json)

\* C12: for a log list without a queued-computation marker line the parser
\* returns no result, whatever binary return lines or MPC_RESULT: lines the
\* list holds.
C12_NoMarkerNoResult ==
    (pResult.called /\ \A i \in 1..Len(pLogs) : ~IsQueuedMarker(pLogs[i]))
        => pResult.value = NullResult

\* parsed: no marker, but a well-formed return line and a well-formed JSON line
C12_Witness ==
    /\ pResult.called
    /\ \A i \in 1..Len(pLogs) : ~IsQueuedMarker(pLogs[i])
    /\ \E i \in 1..Len(pLogs) :
          /\ WellFormedReturnLine(pLogs[i])
          /\ ReadableReturnLine(pLogs[i])
    /\ \E i \in 1..Len(pLogs) : WellFormedJsonLine(pLogs[i])
    /\ pResult.value = NullResult

\* C13: every result the parser produces, from the binary or from the JSON
\* format, has a computationId of exactly 32 bytes and a computationProof of
\* at least 64 bytes (both carried as hex text).
C13_ResultFieldLengths ==
    (pResult.called /\ pResult.value.found)
        => /\ Len(HexDecode(pResult.value.computationId)) = ComputationIdLen
           /\ Len(HexDecode(pResult.value.computationProof)) >= ProofMinLen


(***************************************************************************)
(* Claims about the binary result layout, checked under SpecDecode.        *)
(***************************************************************************)
\* the number a byte string spells, least significant byte first
RECURSIVE LittleEndianValue(_)
LittleEndianValue(bytes) ==
    IF bytes = <<>> THEN 0 ELSE Head(bytes) + 256 * LittleEndianValue(Tail(bytes))

\* C14: a payload of at least 72 bytes is decoded as winner = bytes[0:32],
\* winningAmount = the little-endian 64-bit integer in bytes[32:40] (kept in
\* units of 1e-9), computationId = bytes[40:72], computationProof =
\* bytes[72:], rankings empty; a payload under 72 bytes gives no result.
C14_BinaryLayout ==
    dResult.called =>
        IF Len(dBytes) >= 72
          THEN /\ dResult.value.found
               /\ fromBase58(dResult.value.winner) = SubSeq(dBytes, 1, 32)
               /\ dResult.value.winningAmount = LittleEndianValue(SubSeq(dBytes, 33, 40))
               /\ HexDecode(dResult.value.computationId) = SubSeq(dBytes, 41, 72)
               /\ HexDecode(dResult.value.computationProof) = SubSeq(dBytes, 73, Len(dBytes))
               /\ Len(dResult.value.computationProof) = 2 * (Len(dBytes) - 72)
               /\ dResult.value.rankings = <<>>
        ELSE dResult.value = NullResult

\* decoded: a payload with a proof and an amount that uses all of its low four bytes
C14_Witness ==
    /\ dResult.called
    /\ Len(dBytes) > 72
    /\ SubSeq(dBytes, 33, 36) = <<1, 2, 3, 4>>
    /\ dResult.value.found
    /\ dResult.value.winningAmount = 67305985

(***************************************************************************)
(* Claims about Bid/Reserve Encryption, checked under SpecEncrypt.         *)
(***************************************************************************)
\* the cluster key the caller supplied: the argument, else the manager's
GivenKey(in, fn) ==
    IF fn = "encryptValue" /\ ~in.key.present THEN in.managerGiven ELSE in.key

ValidClusterKey(key) ==
    /\ key.present
    /\ Len(key.bytes) = 32
    /\ key.bytes # Zero32

C7_CipherFailureSurfaced ==
    (eCall.called /\ eIn.env.shape \notin {"bigint", "number"}) => ~eCall.out.ok



(***************************************************************************)
(* Claims about bid submission, checked under SpecBid.                     *)
(***************************************************************************)
\* the ciphertexts the cipher can give for an amount under the cluster key
CipherImages(amount) ==
    { HexToBytes32(ToStringRadix(
          RescueElement(x25519_getSharedSecret(priv, KeyOf(KeyA), TRUE).secret,
                        ToLamports(amount), nonce), 16)) :
        priv \in {PrivA, PrivB}, nonce \in {NonceA, NonceB} }

BidSubmissions == {m \in outbox : m.kind \in {"POST /api/bids", "submitEncryptedBid"}}

\* C2: the amount field of every bid sent out of the client (POST to the bids
\* API or ledger instruction) is the output of the cipher, never the amount
\* in cleartext or in an encoding readable without the shared secret.
C2_AmountLeavesEncrypted ==
    \A m \in BidSubmissions :
        /\ m.amountEncrypted \in CipherImages(m.bidAmount)
        /\ m.amountEncrypted # SetInto32(TextEncodeDecimal(ToLamports(m.bidAmount)))


(***************************************************************************)
(* Claims about settlement, checked under SpecSettle.                      *)
(***************************************************************************)
EffectsOf(i) == {e \in effects : e.inv = i}

\* verifyComputationProof returned true for the result polled by invocation i
VerifiedTrue(i) ==
    /\ inv[i].verdict = "true"
    /\ inv[i].mpcResult.found
    /\ verifyComputationProof(inv[i].mpcResult.computationProof,
                              inv[i].mpcResult.computationId,
                              inv[i].mxeKey).result

\* C1: the payment to the creator, every refund, the POST of the settlement
\* record and the notifications of an execution of settleAuction happen only
\* after verifyComputationProof returned true for the result obtained in that
\* execution; after a false verdict or a throwing MPC step none of them happens.
C1_ActsOnlyOnVerifiedResult ==
    \A i \in Invocations :
        /\ EffectsOf(i) # {} => VerifiedTrue(i)
        /\ (inv[i].mpcFailed \/ inv[i].verdict = "false") => EffectsOf(i) = {}

\* one execution has paid, refunded, posted and notified after a true
\* verdict while another was stopped by a false verdict
C1_Witness ==
    \E i, j \in Invocations :
        /\ {e.kind : e \in EffectsOf(i)} =
               {"payment", "refund", "POST /api/settlements", "settlement", "win"}
        /\ VerifiedTrue(i)
        /\ inv[j].verdict = "false"
        /\ inv[j].pc = "done"

\* C8: an invocation of settleAuction that starts while an earlier one for
\* the same auction has not finished submits no computation and makes no
\* transfer.
C8_NoConcurrentSettlement ==
    \A j \in Invocations :
        inv[j].concurrent =>
            /\ ~\E q \in requests : q.inv = j
            /\ ~\E e \in EffectsOf(j) : e.kind \in {"payment", "refund"}

\* C9: every bid embedded in a submitted computation request carries the
\* ciphertext, nonce and sender public key the bid was created with; the
\* request embeds all bids of the auction, in order, and the encrypted reserve.
C9_BidsEmbeddedUnchanged ==
    \A q \in requests :
        /\ q.request.bidsCount = Len(q.fetched)
        /\ Len(q.request.bids) = Len(q.fetched)
        /\ \A k \in 1..Len(q.fetched) :
              /\ q.request.bids[k].bidder = q.fetched[k].bidder
              /\ q.request.bids[k].encryptedAmount = q.fetched[k].amountEncrypted
              /\ q.request.bids[k].nonce = HexDecode(q.fetched[k].nonce)
              /\ q.request.bids[k].publicKey = q.fetched[k].encryptionPublicKey
        /\ q.request.encryptedReservePrice = q.reserve

(***************************************************************************)
(* Claims about pollComputationResult, checked under SpecPoll and          *)
(* FairSpecPoll.                                                           *)
(***************************************************************************)
\* the transaction never yields a parseable result: it never finalizes, or
\* it has no log messages, or the parser finds no result in them
NeverParseable(tx) ==
    \/ ~tx.finalizes
    \/ ~tx.logs.hasLogs
    \/ ~ParsedLogs[tx.logs].found

PollTimedOut == pollPc = "thrown" /\ pollOut.kind = "Computation result polling timeout"

PollEnded == pollPc \in {"returned", "thrown"}

\* at most maxAttempts status queries; the timeout is raised after exactly
\* maxAttempts queries, each followed by a wait; no result is returned for a
\* transaction that never yields one
PollWithinAttempts ==
    /\ pollQueries <= maxAttempts
    /\ pollWaits <= pollQueries
    /\ PollTimedOut => (pollQueries = maxAttempts /\ pollWaits = maxAttempts)
    /\ NeverParseable(pollTx) => pollPc # "returned"
    /\ (pollPc = "thrown" /\ pollTx.reachable) => PollTimedOut

\* C15: for a transaction that never finalizes or never yields a parseable
\* result, pollComputationResult makes at most maxAttempts status queries,
\* each followed by a wait, and then raises the timeout error; it returns
\* no result and it does not run forever (ledger calls answered, timers firing).
C15_PollingTimeout ==
    /\ []PollWithinAttempts
    /\ <>PollEnded
    /\ (pollPc = "start" /\ NeverParseable(pollTx) /\ pollTx.reachable) ~> PollTimedOut

\* timed out after two or more rounds on a finalized transaction whose logs hold no result
C15_Witness ==
    /\ PollTimedOut
    /\ maxAttempts >= 2
    /\ pollQueries = maxAttempts
    /\ pollWaits = maxAttempts
    /\ pollStatus.confirmationStatus = "finalized"
    /\ pollLogs = <<QueuedLine>>

\* C16: once the ledger has reported the polled transaction as failed (a
\* status that carries an error), the polling ends with a computation-failed
\* error: it does not run on to the timeout and returns no result.
C16_FailedEndsPolling ==
    (pollStatus.present /\ pollStatus.err)
        => /\ pollPc \notin {"timer", "transaction", "returned"}
           /\ PollEnded => pollOut.kind = "Computation failed"

(***************************************************************************)
(* Claims about monitorComputationProgress, checked under SpecMonitor and  *)
(* FairSpecMonitor.                                                        *)
(***************************************************************************)
MonitorEnded == mon.pc \in {"returned", "thrown"}

\* C17: failed and completed are terminal: once a run has observed one of
\* them it makes no further status query, and it is parsing the result,
\* has returned it, or has ended with an error.
C17_TerminalStatuses ==
    monHist.terminalAt # 0
        => /\ monHist.queries = monHist.terminalAt
           /\ mon.pc \in {"transaction", "returned", "thrown"}
           /\ (monHist.terminal = "failed") => (mon.pc = "thrown" /\ mon.out.kind = "error")

\* C18: the progress of every status observed, and of every status handed
\* to onProgress, is within 0..100 and is not below the one before it.
C18_ProgressMonotone ==
    /\ monHist.progress \in -1..100
    /\ monHist.reported \in -1..100
    /\ monHist.prevProgress <= monHist.progress
    /\ monHist.prevReported <= monHist.reported

\* no status query is started once timeoutMs has elapsed since the start
QueriesBeforeDeadline ==
    monHist.queries > 0 => monHist.lastQueryAt - mon.startTime < mon.timeoutMs

\* C19: monitorComputationProgress terminates for every sequence of ledger
\* answers and rejections: it returns or raises in the end, and it starts no
\* status query once timeoutMs has elapsed (ledger calls answered, timers
\* firing, the clock advancing with them).  The clock stays below MaxClock,
\* so no run is cut short by the bound.
C19_MonitorTerminates ==
    /\ []QueriesBeforeDeadline
    /\ [](now < MaxClock)
    /\ <>MonitorEnded

\* timed out after a retried network fault: three or more status queries,
\* the last wait the long one
C19_Witness ==
    /\ mon.pc = "thrown"
    /\ mon.out.kind = "timeout"
    /\ monHist.queries >= 2
    /\ mon.waitTime = FetchRetryWait
    /\ now - mon.startTime >= mon.timeoutMs

(***************************************************************************)
(* Claims about the freshness of keys and nonces, checked under SpecFresh. *)
(***************************************************************************)
Produced == {c \in 1..Len(calls) : calls[c].out.ok}

\* the blocks drawn during call c, whole or cut to the 8 bytes some
\* envelopes keep, and the public keys of the 32-byte ones
OwnNonces(c) ==
    {RandomBlock(g, k, 16) : g \in {0, 1}, k \in calls[c].from..calls[c].to}
      \cup {Slice(RandomBlock(g, k, 16), 0, 8) : g \in {0, 1}, k \in calls[c].from..calls[c].to}

OwnPublicKeys(c) ==
    {x25519_getPublicKey(RandomBlock(0, k, 32)) : k \in calls[c].from..calls[c].to}

\* C20: across every sequence of encryption calls (same amount and cluster
\* key included, calls after a failed one included) no two envelopes share
\* a nonce or a sender public key, and the nonce and key pair of an
\* envelope come from draws made during its own call.
C20_FreshKeysAndNonces ==
    /\ \A c \in Produced :
          /\ calls[c].out.nonce \in OwnNonces(c)
          /\ calls[c].out.publicKey # <<>> => calls[c].out.publicKey \in OwnPublicKeys(c)
          /\ calls[c].from > (IF c = 1 THEN 0 ELSE calls[c - 1].to)
    /\ \A c, d \in Produced :
          c # d => /\ calls[c].out.nonce # calls[d].out.nonce
                   /\ calls[c].out.publicKey # <<>>
                         => calls[c].out.publicKey # calls[d].out.publicKey

\* three calls: the same bid encrypted twice with the same key, and a
\* reserve price encrypted after a call that failed
C20_Witness ==
    /\ Len(calls) = 3
    /\ \E c, d \in Produced :
          /\ c < d
          /\ calls[c].out.fn = "encryptBidForMXE"
          /\ calls[d].out.fn = "encryptBidForMXE"
          /\ calls[c].amount = calls[d].amount
          /\ calls[c].key = calls[d].key
          /\ calls[c].out.nonce # calls[d].out.nonce
    /\ \E c \in 1..Len(calls) : ~calls[c].out.ok

(***************************************************************************)
(* Claims about the nonce, the secrets and the ciphertext of an envelope,  *)
(* checked under SpecEncrypt.                                              *)
(***************************************************************************)
\* an envelope a bid or reserve encryption returned
EnvelopeReturned == eCall.called /\ eCall.out.ok

\* C21: the nonce delivered with every encrypted bid and reserve is the full
\* 16-byte nonce that was passed to the cipher, never its first 8 bytes.
C21_CanonicalNonce ==
    EnvelopeReturned =>
        /\ Len(eCall.out.nonce) = 16
        /\ eCall.out.nonce = eIn.env.nonce

\* the byte strings an envelope hands to the caller
ReturnedValues(out) == {out.ciphertext, out.nonce, out.publicKey, out.sharedSecret}

\* the secrets of the call: the private key drawn and the secret derived from it
SecretsOfCall == {eIn.env.privateKey, SecretOfCall}

\* C22: no value returned by an encryption call is the ephemeral private key
\* or the derived shared secret; the envelope exposes only the ciphertext,
\* the nonce and the sender public key.
C22_SecretsStayInside ==
    EnvelopeReturned =>
        /\ ReturnedValues(eCall.out) \cap SecretsOfCall = {}
        /\ eCall.out.sharedSecret = <<>>

\* the 32 bytes of n, most significant first (n < 2^32)
BigEndian32(n) ==
    [i \in 1..32 |->
        IF i = 32 THEN n % 256
        ELSE IF i = 31 THEN (n \div 256) % 256
        ELSE IF i = 30 THEN (n \div 65536) % 256
        ELSE IF i = 29 THEN n \div 16777216
        ELSE 0]

\* the element the cipher gave in the call
CipherElementOfCall ==
    RescueElement(SecretOfCall, ToLamports(eIn.amount), eIn.env.nonce)

\* C23: every encryption output has a ciphertext of exactly 32 bytes, the
\* big-endian bytes of the cipher element left-padded with zero bytes,
\* whatever the magnitude of the amount or of the element.
C23_CanonicalWidth ==
    EnvelopeReturned =>
        /\ Len(eCall.out.ciphertext) = 32
        /\ eIn.env.shape \in {"bigint", "number", "array"}
              => eCall.out.ciphertext = BigEndian32(CipherElementOfCall)

\* the cluster key the call used is a valid one
ValidKeyOfCall ==
    ValidClusterKey(IF eCall.out.fn = "encryptValue" /\ ~eIn.key.present
                      THEN EncryptionManagerKey(eIn.managerGiven) ELSE eIn.key)

\* C24: for every valid amount and valid cluster key, decrypting the
\* ciphertext an encryption produced, with the same shared secret and nonce,
\* yields exactly the encoded amount (and so decodes to the amount).
C24_RoundTrip ==
    (eDecrypted.called /\ eIn.amount >= 0 /\ ValidKeyOfCall) =>
        /\ eDecrypted.plaintexts = <<[inRange |-> TRUE, value |-> ToLamports(eIn.amount)]>>
        /\ eDecrypted.plaintexts[1].value \div 1000000 = eIn.amount

\* C25: encoding rejects a negative amount: the encryption fails and no
\* plaintext is passed to the cipher; for an amount >= 0 the plaintext
\* passed is floor(amount * 1e9).
C25_NegativeAmountRejected ==
    eCall.called =>
        /\ eIn.amount < 0 => (~eCall.out.ok /\ eCall.cipherIn = <<>>)
        /\ (eIn.amount >= 0 /\ eCall.cipherIn # <<>>)
              => eCall.cipherIn = <<eIn.amount * 1000000>>

(***************************************************************************)
(* Claims about waitForComputation, checked under SpecWait.                *)
(***************************************************************************)
Completed == ComputationStates[computation] = "completed"

\* C26: waitForComputation(txSignature, maxWaitTime) resolves only after
\* the computation of txSignature has completed, and fails when the
\* computation has not completed within maxWaitTime.
C26_WaitsForCompletion ==
    /\ wait.resolved => Completed
    /\ (wait.called /\ ~Completed /\ wNow >= wait.calledAt + wArgs.maxWaitTime)
          => wait.rejected

(***************************************************************************)
(* Claims about getComputationStatus, checked under SpecStatus.            *)
(***************************************************************************)
\* the status and progress the mapping gives for a confirmation level
LevelStatus(level) ==
    IF level = "processed" THEN <<"processing", 30>>
    ELSE IF level = "confirmed" THEN <<"processing", 70>>
    ELSE IF level = "finalized" THEN <<"completed", 100>>
    ELSE <<"processing", 10>>

\* the detail decoded from the err of a failed transaction
DecodedDetail ==
    [err \in StatusErrors |->
        IF err = "InstructionError:Custom" THEN "Instruction 0 failed with custom error: 6001"
        ELSE IF err = "InsufficientFundsForRent" THEN "Insufficient funds for rent"
        ELSE IF err = "AccountAlreadyInUse" THEN "Account already in use"
        ELSE IF err = "InvalidAccountData" THEN "Invalid account data"
        ELSE err]

\* C27: getComputationStatus returns exactly one status for every ledger
\* response and never raises: no status value -> pending/0; a status with an
\* error -> failed with the decoded detail, whatever its confirmation level;
\* otherwise processed -> processing/30, confirmed -> processing/70,
\* finalized -> completed/100, any other level -> processing/10; an
\* exception from the status query -> failed with its message as detail.
C27_StatusMapping ==
    sCall.called =>
        /\ sCall.out.status \in {"pending", "processing", "completed", "failed"}
        /\ sAnswer.rejected =>
              /\ sCall.out.status = "failed"
              /\ sCall.out.progress = 0
              /\ sCall.out.errorDetails = sAnswer.text
        /\ (~sAnswer.rejected /\ ~sAnswer.present) =>
              /\ sCall.out.status = "pending"
              /\ sCall.out.progress = 0
        /\ (~sAnswer.rejected /\ sAnswer.present /\ sAnswer.err # "") =>
              /\ sCall.out.status = "failed"
              /\ sCall.out.progress = 0
              /\ sCall.out.errorDetails = DecodedDetail[sAnswer.err]
        /\ (~sAnswer.rejected /\ sAnswer.present /\ sAnswer.err = "") =>
              <<sCall.out.status, sCall.out.progress>>
                  = LevelStatus(sAnswer.confirmationStatus)

\* a finalized transaction that carries an error is reported as failed
C27_Witness ==
    /\ sCall.called
    /\ sAnswer.present
    /\ sAnswer.confirmationStatus = "finalized"
    /\ sAnswer.err = "InstructionError:Custom"
    /\ sCall.out.status = "failed"
    /\ sCall.out.errorDetails = "Instruction 0 failed with custom error: 6001"

(***************************************************************************)
(* Claims about the guards, the payment and the refunds of settleAuction,  *)
(* checked under SpecSettle.                                               *)
(***************************************************************************)
\* invocation i was called with no wallet, with an unknown auction id, or
\* for an auction it found SETTLED or CANCELLED
MayNotSettle(i) ==
    /\ inv[i].pc # "idle"
    /\ \/ inv[i].auctionId = ""
       \/ inv[i].auctionId # Auction.auctionId
       \/ inv[i].seenStatus \in {"SETTLED", "CANCELLED"}

\* C28: an invocation of settleAuction with no wallet connected, with an
\* unknown auction id, or for an auction whose status is SETTLED or CANCELLED
\* submits no computation, makes no payment or refund transfer and posts no
\* settlement record; it ends at its guards.
C28_RefusedLeavesUnchanged ==
    \A i \in Invocations :
        MayNotSettle(i) =>
            /\ inv[i].pc = "done"
            /\ ~\E q \in requests : q.inv = i
            /\ EffectsOf(i) = {}

\* one invocation settled the auction and a later one found it SETTLED
C28_Witness ==
    \E i, j \in Invocations :
        /\ inv[i].seenStatus = "ACTIVE"
        /\ \E e \in EffectsOf(i) : e.kind = "POST /api/settlements" /\ e.ok
        /\ inv[j].seenStatus = "SETTLED"
        /\ inv[j].pc = "done"
        /\ EffectsOf(j) = {}

\* the bids invocation i fetched, kept with the computation it submitted
FetchedBy(i) == {q.fetched : q \in {r \in requests : r.inv = i}}

PastRefunds(i) == inv[i].pc \in {"notify", "refresh", "done"}

Posted(i) == \E e \in EffectsOf(i) : e.kind = "POST /api/settlements"

PaymentFailed(i) == \E e \in EffectsOf(i) : e.kind = "payment" /\ ~e.ok

RefundsOf(i, k) == {e \in EffectsOf(i) : e.kind = "refund" /\ e.k = k}

\* C29: a failed payment transfer is not propagated: the invocation goes on
\* to the refunds and, after them, the settlement record is posted, so a
\* record can exist without the payment having been made.
C29_PaymentFailureNotPropagated ==
    \A i \in Invocations :
        PaymentFailed(i) =>
            /\ ~inv[i].mpcFailed
            /\ inv[i].pc \in {"refund", "notify", "refresh", "done"}
            /\ PastRefunds(i) =>
                  /\ Posted(i)
                  /\ \A bids \in FetchedBy(i) :
                        \A k \in 1..Len(bids) :
                            bids[k].bidder # inv[i].mpcResult.winner => RefundsOf(i, k) # {}

\* a settlement recorded and notified although the payment failed, with a
\* refund made after the failed payment
C29_Witness ==
    \E i \in Invocations :
        /\ PaymentFailed(i)
        /\ \E e \in EffectsOf(i) : e.kind = "POST /api/settlements" /\ e.ok
        /\ \E e \in EffectsOf(i) : e.kind = "refund"
        /\ \E e \in EffectsOf(i) : e.kind = "settlement"

\* C30: after a verified result there is exactly one refund transfer for
\* each bid of a bidder other than the winner and none for a bid of the
\* winner; a failed refund stops neither the remaining refunds nor the
\* posting of the settlement record.
C30_OneRefundPerLosingBid ==
    \A i \in Invocations :
        \A bids \in FetchedBy(i) :
            /\ \A e \in EffectsOf(i) : e.kind = "refund" => e.k \in 1..Len(bids)
            /\ \A k \in 1..Len(bids) :
                  /\ Cardinality(RefundsOf(i, k)) <= 1
                  /\ bids[k].bidder = inv[i].mpcResult.winner => RefundsOf(i, k) = {}
                  /\ \A e \in RefundsOf(i, k) : e.to = bids[k].bidder /\ VerifiedTrue(i)
                  /\ (PastRefunds(i) /\ inv[i].verdict = "true"
                          /\ bids[k].bidder # inv[i].mpcResult.winner)
                        => Cardinality(RefundsOf(i, k)) = 1
            /\ (PastRefunds(i) /\ inv[i].verdict = "true") => Posted(i)

\* the winner's bid got no refund, the other bid got one that failed, and
\* the settlement record was posted all the same
C30_Witness ==
    \E i \in Invocations :
        \E bids \in FetchedBy(i) :
            /\ Len(bids) = 2
            /\ bids[1].bidder = inv[i].mpcResult.winner
            /\ RefundsOf(i, 1) = {}
            /\ \E e \in RefundsOf(i, 2) : ~e.ok
            /\ Posted(i)

=============================================================================
